---- MODULE Spec2Model ----
(***************************************************************************)
(* Model of the real-time session core of the Luna voice-assistant client. *)
(*                                                                         *)
(* Part 1: WebSocketManager (src/src/modules/websocket-manager.ts, lines   *)
(* 1-136) together with the part of the browser it talks to: WebSocket     *)
(* transport objects (readyState, open/close/message/error events) and the *)
(* setTimeout timers it schedules.  Every public method and every event    *)
(* callback is one action; the private methods it calls are operators on a *)
(* record ("world") holding the manager's fields, the transports and the   *)
(* timers, so that an action is the whole handler.  The initial state is   *)
(* the one the VoiceAssistantApp constructor leaves: the manager is        *)
(* constructed, the application's message handlers and its connection      *)
(* state callback are registered, connect() has not been called.           *)
(*                                                                         *)
(* Part 2: the mode machine of VoiceAssistantApp (src/src/app.ts) with the *)
(* KeyboardHandler and the UIStateManager calls it makes; the awaits of    *)
(* startRecording() and processRecording() are in flight between the       *)
(* action that starts them and the action in which they settle (AppSpec).  *)
(*                                                                         *)
(* Part 3: the sample lookup of AnimationEngine's render tick              *)
(* (src/unnamed/part_003), over the payloads of PlaybackInit               *)
(* (PlaybackSpec).                                                         *)
(*                                                                         *)
(* Part 4: the render loop of AnimationEngine from initialize() on: the    *)
(* animation frame requests, the hidden document, and the smoothing of the *)
(* visual quantities, in fixed-point arithmetic with NaN and the           *)
(* infinities (RenderSpec).                                                *)
(*                                                                         *)
(* Part 5: the elements of the page UIStateManager writes and their timers *)
(* (PageSpec), the stream and the recorder of AudioManager under the       *)
(* keyboard and the messages of the server (CaptureSpec), and start() and  *)
(* stop() of the engine (EngineSpec).                                      *)
(***************************************************************************)
EXTENDS Integers, Sequences, FiniteSets, TLC

----------------------------------------------------------------------------
(* Bounds of the model *)

\* number of transport objects that can be un-collected at the same time
MaxSockets == 3
\* number of distinct timer identifiers in use at the same time
MaxTimers == 3
\* number of awaits of one kind (microphone, recorder stop, transcription)
\* in flight at the same time
MaxInflight == 1
\* length of the sample sequence of an audio_analysis payload
MaxSamples == 3
\* animation frame requests told apart
MaxFrames == 2
\* how long after the receipt of a payload render ticks are followed, in ms
MaxElapsed == 800
\* zero-delay timers of the page pending at the same time
MaxDeferred == 3
\* timers that hide the status element pending at the same time
MaxStatusTimers == 1

----------------------------------------------------------------------------
(* Program constants *)

\* the hard-coded cap of the reconnect delay, in ms
ReconnectCap == 10000

\* TimingConfig values the manager is constructed with: the shipped
\* TIMING_CONFIG, a slower base delay whose backoff reaches the cap, and a
\* small maxReconnectAttempts.
TimingConfigs ==
  { [wsReconnectDelay |-> 1000, maxReconnectAttempts |-> 5],
    [wsReconnectDelay |-> 3000, maxReconnectAttempts |-> 5],
    [wsReconnectDelay |-> 1000, maxReconnectAttempts |-> 2] }

NoSocket == 0
NoTimer == 0
SocketIds == 1..MaxSockets
TimerIds == 1..MaxTimers

\* WebSocket.readyState; "NONE" is an identifier with no transport object
\* (never constructed, or closed, unreferenced and garbage)
ReadyStates == {"CONNECTING", "OPEN", "CLOSING", "CLOSED"}

\* AppMode
AppModes == {"idle", "recording", "processing", "speaking", "text"}
\* a transcription, a typed message or an assistant response
ChatTexts == {"hello"}
\* the messages VoiceAssistantApp hands to send()
OutgoingMessages ==
  {[type |-> "stop"]}
    \cup {[type |-> t, text |-> x] : t \in {"chat", "tts"}, x \in ChatTexts}
    \cup {[type |-> "mode_change", mode |-> m] : m \in AppModes}
\* the message types VoiceAssistantApp registers a handler for
AppMessageTypes ==
  {"chat_response", "audio_analysis", "tts_complete", "stop", "error"}
\* payloads of a message event: text that is not JSON, the JSON text "null",
\* or a JSON object with a type field (pong has no handler)
InboundFrames == {"malformed", "null", "pong", "chat_response"}

VARIABLES
  sockets,                 \* transport objects: identifier -> readyState
  ws,                      \* WebSocketManager.ws (NoSocket = null)
  timers,                  \* pending timers: {[id, delay, from]}
  reconnectTimer,          \* WebSocketManager.reconnectTimer (NoTimer = null)
  reconnectAttempts,       \* WebSocketManager.reconnectAttempts
  messageHandlers,         \* keys of WebSocketManager.messageHandlers
  connectionStateCallback, \* TRUE iff a connection-state callback is set
  timing,                  \* the TimingConfig passed to the constructor
  ev,                      \* what the last handler did (observation only)
  started,                 \* connect() has been called by the application
  disconnected,            \* disconnect() was called, connect() not since
  now,                     \* Date.now(), in ms
  mode,                    \* UIStateManager.state.mode
  textValue,               \* value of the text input element
  pending,                 \* awaits in flight: [mic, stop, upload] -> count
  engine,                  \* AnimationEngine: its fields
  display,                 \* document.hidden and the pending frame requests
  page,                    \* the text field, the status element, their timers
  audio,                   \* AudioManager: its stream and its recorder
  cancelled                \* Escape ended the one recording being processed
                           \* and no key was pressed since (history)

vars == <<sockets, ws, timers, reconnectTimer, reconnectAttempts,
          messageHandlers, connectionStateCallback, timing, ev, started,
          disconnected, now, mode, textValue, pending, engine,
          display, page, audio, cancelled>>

----------------------------------------------------------------------------
(* Arithmetic of the backoff delay *)

RECURSIVE Pow(_, _)
Pow(b, e) == IF e = 0 THEN 1 ELSE b * Pow(b, e - 1)

Min(a, b) == IF a <= b THEN a ELSE b

\* Delays are kept exactly, as multiples of 1/DelayScale ms:
\* 1.5^(n-1) = 3^(n-1) / 2^(n-1) and n <= maxReconnectAttempts.
DelayScale == Pow(2, timing.maxReconnectAttempts)

\* Math.pow(1.5, k) * base, in 1/DelayScale ms, for 0 <= k <= maxReconnectAttempts
ScaledPow15(base, k) ==
  base * Pow(3, k) * Pow(2, timing.maxReconnectAttempts - k)

\* mutant: the cap is not applied
ReconnectDelay_NoCap(attempts) ==
  ScaledPow15(timing.wsReconnectDelay, attempts - 1)

\* Math.min(wsReconnectDelay * Math.pow(1.5, reconnectAttempts - 1), 10000)
ReconnectDelay(attempts) ==
  Min(ScaledPow15(timing.wsReconnectDelay, attempts - 1),
      ReconnectCap * DelayScale)

----------------------------------------------------------------------------
(* Numbers of the animation: IEEE doubles, kept as fixed-point values *)

\* A finite number is kept as an integer count of 1/NumberScale; products
\* are rounded towards zero to that precision.  NaN and the infinities
\* follow the rules of IEEE arithmetic; Undefined is a field that is absent.
NumberScale == 1000
Finite(v) == [kind |-> "finite", v |-> v]
Decimal(units, thousandths) == Finite(units * NumberScale + thousandths)
NaN == [kind |-> "NaN", v |-> 0]
Infinity(sign) == [kind |-> "Infinity", v |-> sign]
Undefined == [kind |-> "undefined", v |-> 0]

SignOf(x) ==
  IF x.kind = "Infinity" THEN x.v
  ELSE IF x.v > 0 THEN 1 ELSE IF x.v < 0 THEN -1 ELSE 0

Rescale(p) ==
  IF p >= 0 THEN p \div NumberScale ELSE -((-p) \div NumberScale)

\* a + b
Plus(a, b) ==
  IF a.kind = "NaN" \/ b.kind = "NaN" THEN NaN
  ELSE IF a.kind = "Infinity"
       THEN IF b.kind = "Infinity" /\ b.v # a.v THEN NaN ELSE a
  ELSE IF b.kind = "Infinity" THEN b
  ELSE Finite(a.v + b.v)

\* -a
Negate(a) == IF a.kind = "NaN" THEN NaN ELSE [a EXCEPT !.v = -@]

\* a - b
Minus(a, b) == Plus(a, Negate(b))

\* a * b
Times(a, b) ==
  IF a.kind = "NaN" \/ b.kind = "NaN" THEN NaN
  ELSE IF a.kind = "Infinity" \/ b.kind = "Infinity"
       THEN IF SignOf(a) * SignOf(b) = 0 THEN NaN
            ELSE Infinity(SignOf(a) * SignOf(b))
  ELSE Finite(Rescale(a.v * b.v))

\* a <= b, for numbers other than NaN
LessEq(a, b) ==
  \/ a.kind = "Infinity" /\ a.v = -1
  \/ b.kind = "Infinity" /\ b.v = 1
  \/ a.kind = "finite" /\ b.kind = "finite" /\ a.v <= b.v

\* Math.min(a, b), Math.max(a, b), Math.abs(a)
MathMin(a, b) ==
  IF a.kind = "NaN" \/ b.kind = "NaN" THEN NaN
  ELSE IF LessEq(a, b) THEN a ELSE b
MathMax(a, b) ==
  IF a.kind = "NaN" \/ b.kind = "NaN" THEN NaN
  ELSE IF LessEq(a, b) THEN b ELSE a
MathAbs(a) ==
  IF a.kind = "NaN" THEN NaN
  ELSE IF a.kind = "Infinity" THEN Infinity(1)
  ELSE Finite(IF a.v < 0 THEN -a.v ELSE a.v)

\* x || 0 for a number or an absent field: undefined, NaN and 0 are falsy
OrZero(x) ==
  IF x.kind \in {"undefined", "NaN"} \/ (x.kind = "finite" /\ x.v = 0)
  THEN Finite(0)
  ELSE x

\* min <= x <= max, which is false of NaN
Within(x, min, max) ==
  x.kind # "NaN" /\ LessEq(min, x) /\ LessEq(x, max)

----------------------------------------------------------------------------
(* Values of the application layer *)

\* the TimingConfig VoiceAssistantApp constructs its manager with
TIMING_CONFIG == [wsReconnectDelay |-> 1000, maxReconnectAttempts |-> 5]
ANIMATION_BUFFERING_DELAY == 150
TIME_CONVERSION_MULTIPLIER == 1000

\* A quantity in seconds (a duration, a start time, the time of a sample)
\* is kept exactly, as an integer number of 1/SecondsScale s.
SecondsScale == 1000
\* seconds * TIME_CONVERSION_MULTIPLIER, in ms
SecondsTimesMultiplier(sec) ==
  (sec * TIME_CONVERSION_MULTIPLIER) \div SecondsScale

\* audioAnalysisData: null, or an array of samples
NoAnalysis == [isArray |-> FALSE, samples |-> << >>]
AnalysisOf(samples) == [isArray |-> TRUE, samples |-> samples]

\* the bounds of ANIMATION_CONFIG the engine reads
ANIMATION_CONFIG ==
  [ maxScale |-> Decimal(1, 500), maxBrightness |-> Decimal(8, 0),
    maxBlur |-> Decimal(25, 0), minScale |-> Decimal(0, 950),
    minBrightness |-> Decimal(1, 200), minBlur |-> Decimal(12, 0) ]

\* configurations an engine is constructed with: that of the application,
\* and one whose bounds are the resting values
AnimationConfigs ==
  { ANIMATION_CONFIG,
    [ maxScale |-> Decimal(1, 0), maxBrightness |-> Decimal(6, 0),
      maxBlur |-> Decimal(15, 0), minScale |-> Decimal(1, 0),
      minBrightness |-> Decimal(6, 0), minBlur |-> Decimal(15, 0) ] }

\* animationId before the first request
NoFrame == 0
FrameIds == 1..MaxFrames

\* new AnimationEngine(config): the constructor and the field initialisers
AnimationEngine(config) ==
  [ config                 |-> config,
    animationId            |-> NoFrame,
    smoothedHaloScale      |-> Decimal(1, 0),
    smoothedHaloBrightness |-> Decimal(6, 0),
    smoothedHaloBlur       |-> Decimal(15, 0),
    smoothedDisplacement   |-> Decimal(0, 0),
    speakingSmoothVolume   |-> Decimal(0, 0),
    speakingSmoothBass     |-> Decimal(0, 0),
    speakingSmoothMid      |-> Decimal(0, 0),
    audioAnalysisData |-> NoAnalysis,
    speakingDuration  |-> 0,
    serverStartTime   |-> 0,
    clientStartTime   |-> 0,
    clockOffset       |-> 0,
    bufferingDelay    |-> ANIMATION_BUFFERING_DELAY ]

\* the engine of VoiceAssistantApp
NewEngine == AnimationEngine(ANIMATION_CONFIG)

\* the document is visible and no animation frame is requested
NewDisplay == [hidden |-> FALSE, frames |-> {}]

\* the elements of the page that initialize() caches, as the page is loaded:
\* the text field (hidden, not focused), the status element (hidden, empty),
\* UIStateManager.state.backendReady, the timers of delay 0 that are
\* pending, in the order they were set, and the number of pending timers
\* that hide the status element
NewPage ==
  [ textInput    |-> [focused |-> FALSE, visible |-> FALSE],
    status       |-> [textContent |-> "", visible |-> FALSE],
    backendReady |-> FALSE,
    deferred     |-> << >>,
    statusTimers |-> 0 ]

\* new AudioManager(...): stream is null or a MediaStream whose tracks are
\* live; orphaned: a stream that was acquired and is still live, and that
\* the field no longer refers to; mediaRecorder is null or a MediaRecorder
\* in the state given; stopEvents: the stop events still to come of
\* recorders that stopRecording() has stopped, with its handler set
NewAudio ==
  [ stream |-> "null", orphaned |-> FALSE, mediaRecorder |-> "null",
    stopEvents |-> 0 ]

\* no await of the mode machine is in flight
NonePending == [mic |-> 0, stop |-> 0, upload |-> 0]

\* a parsed inbound message: IncomingMessage of types/index.ts, with the
\* fields the handlers of VoiceAssistantApp read (duration and start_time
\* in seconds, see SecondsScale)
Message(type, response, analysis, duration, start_time) ==
  [ type |-> type, response |-> response, analysis |-> analysis,
    duration |-> duration, start_time |-> start_time ]
NoMessage == Message("none", "", NoAnalysis, 0, 0)

\* an element a keydown event is dispatched to: its tag name, its type
\* (of an input element), whether it is content-editable, and its role
\* attribute; NoTarget is the null target
Element(tagName, type, contentEditable, role) ==
  [ tagName |-> tagName, type |-> type,
    contentEditable |-> contentEditable, role |-> role ]
NoTarget == Element("null", "", FALSE, "")
Div == Element("div", "", FALSE, "")
TextField == Element("input", "text", FALSE, "")
Textarea == Element("textarea", "", FALSE, "")

\* a keydown event: code, target and the modifier keys
KeyEvent(code, target, mods) ==
  [ code |-> code, target |-> target,
    ctrlKey |-> "ctrl" \in mods, altKey |-> "alt" \in mods,
    metaKey |-> "meta" \in mods, shiftKey |-> "shift" \in mods ]
NoKey == KeyEvent("none", NoTarget, {})

\* the elements that take text, and some that do not
TypingTargets ==
  { TextField, Textarea, Element("div", "", TRUE, ""),
    Element("div", "", FALSE, "textbox"),
    Element("span", "", FALSE, "searchbox") }
OtherTargets ==
  { Div, NoTarget, Element("input", "checkbox", FALSE, ""),
    Element("div", "", FALSE, "button") }

\* the keydown events of the document: Escape on a plain element and in a
\* text area with any modifier key, and unmodified in the other elements
\* that take text; Space, T and R on a plain element with any modifier key
\* and unmodified in every element that takes text; Space on the other
\* elements
KeyModifiers == {{}, {"ctrl"}, {"alt"}, {"meta"}, {"shift"}}
ShortcutCodes == {"Space", "KeyT", "KeyR"}
KeyEvents ==
  {KeyEvent("Escape", t, m) : t \in {Div, Textarea}, m \in KeyModifiers}
    \cup {KeyEvent("Escape", t, {}) : t \in TypingTargets}
    \cup {KeyEvent(c, Div, m) : c \in ShortcutCodes, m \in KeyModifiers}
    \cup {KeyEvent(c, t, {}) : c \in ShortcutCodes, t \in TypingTargets}
    \cup {KeyEvent("Space", t, {}) : t \in OtherTargets}

\* values of the text field: empty, blank, text
TextValues == {"", " ", "hello"}

\* a sample of an audio_analysis payload; time is in seconds (see
\* SecondsScale), NoTime stands for a sample without a time field
NoTime == -1
SampleOf(time, volume, bass, low_mid, high) ==
  [ time |-> time, volume |-> volume, bass |-> bass, low_mid |-> low_mid,
    high |-> high ]
Sample(time) == SampleOf(time, Undefined, Undefined, Undefined, Undefined)

\* the payloads a playback is started with: sample sequences with and
\* without times, sorted or not; durations (negative, zero, positive) and
\* server start times in
\* seconds (see SecondsScale); the client's clock at receipt and the steps
\* it advances by, in ms
SampleTimes == {NoTime, 0, 100, 200}
SampleSequences ==
  UNION {{[i \in 1..n |-> Sample(f[i])] : f \in [1..n -> SampleTimes]} :
           n \in 0..MaxSamples}
Durations == {-300, 0, 300, 500}
StartTimes == {0, 2000}
ReceiptTimes == {1000}
ClockSteps == {50}

\* what a render tick did: the update it ran ("hidden": none, the document
\* is hidden; "idle": updateIdleAnimation; "speaking": the smoothing was
\* driven by a sample; "skipped": updateSpeakingAnimation returned early;
\* "error": an exception was caught), the index of the sample that drove
\* it or that the lookup chose (0-based, -1 if none), the animation frames
\* it requested, the data of that sample, whether it read the mode, the
\* properties it wrote, and the elapsed playback time the lookup used (in
\* 1/SecondsScale s, -1 if there was no lookup)
NoSpeakingData ==
  [volume |-> Undefined, bass |-> Undefined, mid |-> Undefined,
   high |-> Undefined]
Tick(path, index, requested) ==
  [ path |-> path, index |-> index, requested |-> requested,
    data |-> NoSpeakingData, readMode |-> FALSE, wrote |-> {},
    elapsed |-> -1 ]
NoTick == Tick("none", -1, 0)

\* messages of the server
InboundMessages ==
  {Message("chat_response", r, NoAnalysis, 0, 0) : r \in {"", "hello"}}
    \cup {Message("audio_analysis", "", a, SecondsScale, 0) :
             a \in {NoAnalysis, AnalysisOf(<<Sample(0)>>)}}
    \cup {Message(t, "", NoAnalysis, 0, 0) :
             t \in {"tts_complete", "stop", "error", "pong"}}

\* String.prototype.trim on the values of the text field
Trim(value) ==
  CASE value = " " -> ""
    [] value = " hello " -> "hello"
    [] OTHER -> value

\* what the fetch of the transcription endpoint settles with: a response
\* (its ok flag, its status and the transcription field of its JSON body,
\* NoTranscription if the body has none), or a rejection
NoTranscription == "undefined"
Response(ok, status, transcription) ==
  [ kind |-> "response", ok |-> ok, status |-> status,
    transcription |-> transcription ]
FetchRejected ==
  [ kind |-> "rejected", ok |-> FALSE, status |-> 0,
    transcription |-> NoTranscription ]
NoResponse ==
  [ kind |-> "none", ok |-> FALSE, status |-> 0,
    transcription |-> NoTranscription ]
TranscriptionResponses ==
  {Response(TRUE, 200, t) : t \in {NoTranscription, "", " "} \cup ChatTexts}
    \cup {Response(FALSE, 500, NoTranscription), FetchRejected}

\* AudioManager.processRecording(audioBlob), given what its fetch settles
\* with: the transcription it resolves with or the message of the error
\* it throws
audioManagerProcessRecording(response) ==
  IF response.kind = "rejected"
  THEN [ok |-> FALSE, transcription |-> "", error |-> "Failed to fetch"]
  ELSE IF ~response.ok
  THEN [ok |-> FALSE, transcription |-> "", error |-> "Transcription failed"]
  ELSE IF response.transcription \in {NoTranscription, ""}
            \/ Trim(response.transcription) = ""
  THEN [ok |-> FALSE, transcription |-> "", error |-> "No speech detected"]
  ELSE [ok |-> TRUE, transcription |-> response.transcription, error |-> ""]

\* what audioManager.processRecording() settles with
TranscriptionOutcomes ==
  {audioManagerProcessRecording(r) : r \in TranscriptionResponses}

----------------------------------------------------------------------------
(* The world a handler runs in, and the effects it has *)

Effects(op, modeBefore) ==
  [ op          |-> op,       \* the handler that ran
    sock        |-> NoSocket, \* the transport whose event it handled
    frame       |-> "none",   \* the payload of the message event it handled
    result      |-> "none",   \* return value / outcome
    threw       |-> FALSE,    \* an exception left the handler
    notified    |-> << >>,    \* connection-state callback invocations
    sent        |-> << >>,    \* transport.send calls: [sock, type]
    handled     |-> << >>,    \* message handler invocations
    closeCalls  |-> << >>,    \* transport.close calls
    constructed |-> << >>,    \* new WebSocket(...) calls that returned
    cancelled   |-> << >>,    \* pending timers cancelled by clearTimeout
    scheduled   |-> << >>,    \* setTimeout calls: [id, delay, from]
    data        |-> NoMessage,\* the parsed message given to an app handler
    key         |-> NoKey,    \* the keydown event it handled
    response    |-> NoResponse, \* what the transcription fetch settled with
    callbacks   |-> << >>,    \* KeyboardHandlerCallbacks invoked
    modeBefore  |-> modeBefore, \* the mode when the handler started
    tick        |-> NoTick,   \* what a render tick did
    modes       |-> << >>,    \* setMode calls: [mode, sent so far]
    status      |-> << >>,    \* showStatus messages
    task        |-> "none",   \* the timer callback of the page that ran
    dom         |-> << >> ]   \* focus() and blur() calls on the text field

NoEffects(op) == Effects(op, mode)

World(op) ==
  [ sockets |-> sockets, ws |-> ws, timers |-> timers,
    reconnectTimer |-> reconnectTimer,
    reconnectAttempts |-> reconnectAttempts,
    messageHandlers |-> messageHandlers,
    connectionStateCallback |-> connectionStateCallback,
    now |-> now, mode |-> mode, textValue |-> textValue,
    pending |-> pending, engine |-> engine, display |-> display,
    page |-> page, audio |-> audio,
    fx |-> NoEffects(op) ]

\* identifiers a new transport / a new timer can take
FreeSockets(w) == {s \in SocketIds : w.sockets[s] = "NONE"}
FreeTimers(w) ==
  {t \in TimerIds : t # w.reconnectTimer /\ \A p \in w.timers : p.id # t}
Least(S) == CHOOSE x \in S : \A y \in S : x <= y

\* a transport that is CLOSED has delivered its last event; once the manager
\* holds no reference to it, it is garbage
Collect(w) ==
  [w EXCEPT !.sockets =
     [s \in SocketIds |->
        IF w.sockets[s] = "CLOSED" /\ s # w.ws THEN "NONE" ELSE w.sockets[s]]]

----------------------------------------------------------------------------
(* The browser's WebSocket object *)

\* WebSocket.close(): starts the closing handshake of a CONNECTING or OPEN
\* transport; the close event is delivered later, as an event of its own
CloseCall(state) ==
  IF state \in {"CONNECTING", "OPEN"} THEN "CLOSING" ELSE state

\* JSON.parse(event.data)
JSONParse(frame) ==
  IF frame = "malformed"
  THEN [threw |-> TRUE, data |-> "none"]
  ELSE [threw |-> FALSE, data |-> frame]

----------------------------------------------------------------------------
(* UIStateManager: the mode, the text field and the status element *)

\* setTimeout(callback, 0); kind names the callback: "exitBlur" is the one
\* of setState, "focus" and "blur" are those of updateTextInputVisibility
setTimeout0(w, kind) == [w EXCEPT !.page.deferred = Append(@, kind)]

\* mutant: the text field is blurred whatever the mode is by then
blurCallback_NoModeCheck(w) ==
  [w EXCEPT !.page.textInput.focused = FALSE,
            !.fx.dom = Append(@, "blur")]

\* the callback of the two timers that blur the text field
blurCallback(w) ==
  IF w.mode # "text"
  THEN [w EXCEPT !.page.textInput.focused = FALSE,
                 !.fx.dom = Append(@, "blur")]
  ELSE w

\* the callback of the timer that focuses the text field
focusCallback(w) ==
  IF w.mode = "text"
  THEN [w EXCEPT !.page.textInput.focused = TRUE,
                 !.fx.dom = Append(@, "focus")]
  ELSE w

updateTextInputVisibility(w) ==
  IF w.mode = "text"
  THEN setTimeout0([w EXCEPT !.page.textInput.visible = TRUE], "focus")
  ELSE setTimeout0([w EXCEPT !.page.textInput.visible = FALSE], "blur")

updateStatusDisplay(w) ==
  IF ~w.page.backendReady
  THEN [w EXCEPT !.page.status =
                    [textContent |-> "Waiting for backend to start",
                     visible |-> TRUE]]
  ELSE [w EXCEPT !.page.status.visible = FALSE]

\* updateUI(); the connection indicator is not modelled
updateUI(w) == updateStatusDisplay(updateTextInputVisibility(w))

\* setMode(mode) = setState({mode})
setMode(w, m) ==
  LET w1 == [w EXCEPT !.mode = m,
                      !.fx.modes =
                         Append(@, [mode |-> m, sent |-> Len(w.fx.sent)])]
  IN  updateUI(IF w.mode = "text" /\ m # "text"
               THEN setTimeout0(w1, "exitBlur")
               ELSE w1)

\* setConnected(connected) = setState({connected})
setConnected(w, connected) == updateUI(w)

\* setBackendReady(ready) = setState({backendReady: ready})
setBackendReady(w, ready) == updateUI([w EXCEPT !.page.backendReady = ready])

\* showStatus(message, false, type): the message is shown and a timer is
\* set that hides the status element after UI_STATUS_DISPLAY_DURATION
showStatus(w, message) ==
  [w EXCEPT !.page.status = [textContent |-> message, visible |-> TRUE],
            !.page.statusTimers = @ + 1,
            !.fx.status = Append(@, message)]

\* the callback of the timer of showStatus
statusCallback(w) == [w EXCEPT !.page.status.visible = FALSE]

----------------------------------------------------------------------------
(* WebSocketManager: private methods *)

\* mutant: the reference is dropped without closing the transport
cleanup_NoClose(w) ==
  IF w.ws # NoSocket THEN [w EXCEPT !.ws = NoSocket] ELSE w

cleanup(w) ==
  IF w.ws # NoSocket
  THEN [w EXCEPT !.sockets[w.ws] = CloseCall(@),
                 !.fx.closeCalls = Append(@, w.ws),
                 !.ws = NoSocket]
  ELSE w

\* mutant: the field is reset but the timer keeps running
clearReconnectTimer_NoClear(w) ==
  IF w.reconnectTimer # NoTimer THEN [w EXCEPT !.reconnectTimer = NoTimer] ELSE w

clearReconnectTimer(w) ==
  IF w.reconnectTimer # NoTimer
  THEN [w EXCEPT
          !.timers = {p \in @ : p.id # w.reconnectTimer},
          !.fx.cancelled =
             IF \E p \in w.timers : p.id = w.reconnectTimer
             THEN Append(@, w.reconnectTimer) ELSE @,
          !.reconnectTimer = NoTimer]
  ELSE w

\* mutant: the counter is not reset when it has reached the maximum
NextAttempt_NoWrap(attempts) == attempts + 1

\* if (reconnectAttempts >= max) reconnectAttempts = 0; reconnectAttempts++
NextAttempt(attempts) ==
  (IF attempts >= timing.maxReconnectAttempts THEN 0 ELSE attempts) + 1

scheduleReconnect(w) ==
  LET w1 == clearReconnectTimer(w)
      n  == NextAttempt(w1.reconnectAttempts)
      t  == [id |-> Least(FreeTimers(w1)), delay |-> ReconnectDelay(n),
             from |-> w1.reconnectAttempts]
  IN  [w1 EXCEPT !.reconnectAttempts = n,
                 !.timers = @ \cup {t},
                 !.reconnectTimer = t.id,
                 !.fx.scheduled = Append(@, t)]

\* the callback VoiceAssistantApp registers hands the state to
\* UIStateManager.setConnected
notifyConnectionState(w, connected) ==
  IF w.connectionStateCallback
  THEN setConnected([w EXCEPT !.fx.notified = Append(@, connected)],
                    connected)
  ELSE w

handleMessage(w, type) ==
  IF type \in w.messageHandlers
  THEN [w EXCEPT !.fx.handled = Append(@, type)]
  ELSE w

----------------------------------------------------------------------------
(* WebSocketManager: public methods and event callbacks *)

\* mutant: readyState is not tested
send_NoStateCheck(w, message) ==
  IF w.ws # NoSocket
  THEN [w EXCEPT !.fx.sent = Append(@, [sock |-> w.ws, message |-> message]),
                 !.fx.result = "true"]
  ELSE [w EXCEPT !.fx.result = "false"]

send(w, message) ==
  IF w.ws # NoSocket /\ w.sockets[w.ws] = "OPEN"
  THEN [w EXCEPT !.fx.sent = Append(@, [sock |-> w.ws, message |-> message]),
                 !.fx.result = "true"]
  ELSE [w EXCEPT !.fx.result = "false"]

\* the catch block of connect()
\* mutant: the construction failure is only logged
connectCatch_LogOnly(w) == w

connectCatch(w) == scheduleReconnect(w)

\* mutant: no early return while CONNECTING
connect_NoGuard(w, constructs) ==
  LET w1 == cleanup(w)
      s  == Least(FreeSockets(Collect(w1)))
  IN  IF constructs
      THEN [Collect(w1) EXCEPT !.sockets[s] = "CONNECTING", !.ws = s,
                               !.fx.constructed = Append(@, s),
                               !.fx.result = "created"]
      ELSE connectCatch([w1 EXCEPT !.fx.result = "failed"])

\* constructs: whether new WebSocket(wsUrl) returns (TRUE) or throws (FALSE)
connect(w, constructs) ==
  IF w.ws # NoSocket /\ w.sockets[w.ws] = "CONNECTING"
  THEN [w EXCEPT !.fx.result = "noop"]
  ELSE LET w1 == cleanup(w)
           s  == Least(FreeSockets(Collect(w1)))
       IN  IF constructs
           THEN [Collect(w1) EXCEPT !.sockets[s] = "CONNECTING", !.ws = s,
                                    !.fx.constructed = Append(@, s),
                                    !.fx.result = "created"]
           ELSE connectCatch([w1 EXCEPT !.fx.result = "failed"])

disconnect(w) == clearReconnectTimer(cleanup(w))

\* mutant: the attempt counter survives a successful open
onopen_NoReset(w) ==
  send(notifyConnectionState(w, TRUE),
       [type |-> "ping", timestamp |-> w.now])

onopen(w) ==
  send(notifyConnectionState([w EXCEPT !.reconnectAttempts = 0], TRUE),
       [type |-> "ping", timestamp |-> w.now])

\* mutant: no try/catch around JSON.parse
onmessage_NoTry(w, frame) ==
  LET p == JSONParse(frame)
  IN  IF p.threw THEN [w EXCEPT !.fx.threw = TRUE]
      ELSE IF p.data = "null" THEN [w EXCEPT !.fx.threw = TRUE]
      ELSE handleMessage(w, p.data)

\* a parse failure, and the TypeError of reading .type of null, are caught
onmessage(w, frame) ==
  LET p == JSONParse(frame)
  IN  IF p.threw THEN [w EXCEPT !.fx.result = "invalid"]
      ELSE IF p.data = "null" THEN [w EXCEPT !.fx.result = "invalid"]
      ELSE handleMessage(w, p.data)

\* mutant: the close event is reported but no reconnect is scheduled
onclose_NotifyOnly(w) == notifyConnectionState(w, FALSE)

onclose(w) == scheduleReconnect(notifyConnectionState(w, FALSE))

onerror(w) == w

----------------------------------------------------------------------------
(* UIStateManager, AnimationEngine: what the mode machine calls *)

\* WebSocketManager.isConnected()
isConnected(w) == w.ws # NoSocket /\ w.sockets[w.ws] = "OPEN"

getTextInputValue(w) == Trim(w.textValue)

clearTextInput(w) == [w EXCEPT !.textValue = ""]

\* setAudioAnalysisData(analysis, duration, startTime): duration and
\* startTime are in seconds, the engine keeps milliseconds
setAudioAnalysisData(w, analysis, duration, startTime) ==
  [w EXCEPT
     !.engine.audioAnalysisData = analysis,
     !.engine.speakingDuration = SecondsTimesMultiplier(duration),
     !.engine.serverStartTime = SecondsTimesMultiplier(startTime),
     !.engine.clientStartTime = w.now,
     !.engine.clockOffset = w.now - SecondsTimesMultiplier(startTime)]

clearAudioAnalysisData(w) ==
  [w EXCEPT !.engine.audioAnalysisData = NoAnalysis]

----------------------------------------------------------------------------
(* AnimationEngine: the sample lookup of a render tick *)

Max(a, b) == IF a >= b THEN a ELSE b

\* A quotient a / b of two numbers, kept exactly; b = 0 gives Infinity for
\* a > 0 and NaN for a = 0 (a is never negative here).
Quotient(a, b) == [num |-> a, den |-> b]
IsNaN(q) == q.den = 0 /\ q.num = 0
One == Quotient(1, 1)

\* q > 1 (false for NaN)
GreaterThanOne(q) ==
  \/ q.den > 0 /\ q.num > q.den
  \/ q.den = 0 /\ q.num > 0
  \/ q.den < 0 /\ q.num < q.den

\* Math.min(q, 1) (NaN for NaN)
MinWithOne(q) ==
  IF IsNaN(q) THEN q ELSE IF GreaterThanOne(q) \/ q.num = q.den THEN One ELSE q

\* the index audioAnalysisData[NaN] is read at: no element
NaNIndex == -1

\* Math.floor(q * n) for a quotient q <= 1 and a length n >= 0
FloorOfProduct(q, n) ==
  IF IsNaN(q) THEN NaNIndex
  ELSE IF q.den > 0 THEN (q.num * n) \div q.den
  ELSE -(((q.num * n) + (-q.den) - 1) \div (-q.den))

\* sample.time || 0
TimeOrZero(sample) == IF sample.time = NoTime THEN 0 ELSE sample.time

\* mutant: the client's clock is taken for the server's
calculateElapsedSeconds_NoOffset(w) ==
  LET serverTimeNow == w.now
      elapsedMs     == serverTimeNow - w.engine.serverStartTime
  IN  Max(0, ((elapsedMs - w.engine.bufferingDelay) * SecondsScale)
               \div TIME_CONVERSION_MULTIPLIER)

\* calculateElapsedSeconds(), in 1/SecondsScale s
calculateElapsedSeconds(w) ==
  LET serverTimeNow == w.now - w.engine.clockOffset
      elapsedMs     == serverTimeNow - w.engine.serverStartTime
  IN  Max(0, ((elapsedMs - w.engine.bufferingDelay) * SecondsScale)
               \div TIME_CONVERSION_MULTIPLIER)

\* mutant: a sample whose time equals the elapsed time is not yet reached
TimeReached_Strict(time, elapsedSec) == time < elapsedSec

\* the test of the binary search: time <= elapsedSec
TimeReached(time, elapsedSec) == time <= elapsedSec

\* the loop of binarySearchByTime; left, right and result are 0-based
RECURSIVE binarySearchLoop(_, _, _, _, _)
binarySearchLoop(samples, elapsedSec, left, right, result) ==
  IF left > right THEN result
  ELSE LET mid == (left + right) \div 2
       IN  IF TimeReached(TimeOrZero(samples[mid + 1]), elapsedSec)
           THEN binarySearchLoop(samples, elapsedSec, mid + 1, right, mid)
           ELSE binarySearchLoop(samples, elapsedSec, left, mid - 1, result)

binarySearchByTime(w, elapsedSec) ==
  LET samples == w.engine.audioAnalysisData.samples
  IN  binarySearchLoop(samples, elapsedSec, 0, Len(samples) - 1, 0)

calculateIndexByProgress(w, elapsedSec) ==
  LET elapsedMs == SecondsTimesMultiplier(elapsedSec)
      progress  == MinWithOne(Quotient(elapsedMs, w.engine.speakingDuration))
  IN  FloorOfProduct(progress, Len(w.engine.audioAnalysisData.samples))

findDataIndex(w, elapsedSec) ==
  LET samples     == w.engine.audioAnalysisData.samples
      hasTimeData == Len(samples) > 0 /\ samples[1].time # NoTime
  IN  IF hasTimeData THEN binarySearchByTime(w, elapsedSec)
      ELSE calculateIndexByProgress(w, elapsedSec)

\* createCurrentSpeakingData(dataPoint): Math.min(field || 0, 1)
createCurrentSpeakingData(dataPoint) ==
  [ volume |-> MathMin(OrZero(dataPoint.volume), Decimal(1, 0)),
    bass   |-> MathMin(OrZero(dataPoint.bass), Decimal(1, 0)),
    mid    |-> MathMin(OrZero(dataPoint.low_mid), Decimal(1, 0)),
    high   |-> MathMin(OrZero(dataPoint.high), Decimal(1, 0)) ]

\* getCurrentSpeakingData(), called with audioAnalysisData set: the index of
\* the sample it returns the data of, and that data; reading the fields of
\* an element that does not exist throws a TypeError
getCurrentSpeakingData(w) ==
  LET samples    == w.engine.audioAnalysisData.samples
      elapsedSec == calculateElapsedSeconds(w)
      dataIndex  == findDataIndex(w, elapsedSec)
  IN  IF dataIndex \in 0..(Len(samples) - 1)
      THEN [threw |-> FALSE, index |-> dataIndex, elapsed |-> elapsedSec,
            data |-> createCurrentSpeakingData(samples[dataIndex + 1])]
      ELSE [threw |-> TRUE, index |-> dataIndex, elapsed |-> elapsedSec,
            data |-> NoSpeakingData]

lerp(current, target, factor) ==
  Plus(current, Times(Minus(target, current), factor))

dynamicSmooth(current, target, baseFactor) ==
  LET diff == MathAbs(Minus(target, current))
      dynamicFactor ==
        MathMin(Times(baseFactor,
                      Plus(Decimal(1, 0), Times(diff, Decimal(0, 500)))),
                Decimal(0, 300))
  IN  Plus(current, Times(Minus(target, current), dynamicFactor))

clamp(value, min, max) == MathMin(MathMax(value, min), max)

updateAudioSmoothing(w, speakingData) ==
  LET sFactor == Decimal(0, 200)
  IN  [w EXCEPT
         !.engine.speakingSmoothVolume = lerp(@, speakingData.volume, sFactor),
         !.engine.speakingSmoothBass = lerp(@, speakingData.bass, sFactor),
         !.engine.speakingSmoothMid = lerp(@, speakingData.mid, sFactor)]

calculateAudioInfluences(w) ==
  LET volumeNorm ==
        clamp(Times(w.engine.speakingSmoothVolume, Decimal(3, 0)),
              Decimal(0, 0), Decimal(1, 0))
      bassNorm ==
        clamp(Times(Times(w.engine.speakingSmoothBass, volumeNorm),
                    Decimal(1, 200)),
              Decimal(0, 0), Decimal(1, 0))
  IN  [audio |-> volumeNorm, bass |-> bassNorm]

updateHaloProperties(w, influences) ==
  LET config == w.engine.config
      targetScale ==
        clamp(Plus(Plus(Decimal(1, 0),
                        Times(influences.audio, Decimal(0, 400))),
                   Times(influences.bass, Decimal(0, 300))),
              config.minScale, config.maxScale)
      targetBrightness ==
        clamp(Plus(Plus(Decimal(6, 0),
                        Times(influences.audio, Decimal(1, 200))),
                   Times(influences.bass, Decimal(0, 800))),
              config.minBrightness, config.maxBrightness)
      targetBlur ==
        clamp(Plus(Decimal(15, 0), Times(influences.bass, Decimal(12, 0))),
              config.minBlur, config.maxBlur)
  IN  [w EXCEPT
         !.engine.smoothedHaloScale =
            dynamicSmooth(@, targetScale, Decimal(0, 250)),
         !.engine.smoothedHaloBrightness =
            dynamicSmooth(@, targetBrightness, Decimal(0, 250)),
         !.engine.smoothedHaloBlur =
            dynamicSmooth(@, targetBlur, Decimal(0, 250))]

calculateDisplacement(w, influences) ==
  LET targetDisplacement ==
        MathMin(Plus(Plus(Times(influences.audio, Decimal(50, 0)),
                          Times(influences.bass, Decimal(30, 0))),
                     Times(w.engine.speakingSmoothMid, Decimal(20, 0))),
                Decimal(80, 0))
  IN  [w EXCEPT !.engine.smoothedDisplacement =
                   dynamicSmooth(@, targetDisplacement, Decimal(0, 200))]

\* updateSpeakingAnimation(): the smoothing is driven by the sample found
\* unless the lookup throws or the progress test returns early
updateSpeakingAnimation(w) ==
  LET speakingData     == getCurrentSpeakingData(w)
      serverTimeNow    == w.now - w.engine.clockOffset
      elapsed          == serverTimeNow - w.engine.serverStartTime
      adjustedElapsed  == Max(0, elapsed - w.engine.bufferingDelay)
      adjustedProgress ==
        MinWithOne(Quotient(adjustedElapsed, w.engine.speakingDuration))
  IN  IF speakingData.threw
      THEN [w EXCEPT !.fx.tick.path = "error",
                     !.fx.tick.index = speakingData.index,
                     !.fx.tick.elapsed = speakingData.elapsed]
      ELSE IF GreaterThanOne(adjustedProgress)
      THEN [w EXCEPT !.fx.tick.path = "skipped",
                     !.fx.tick.index = speakingData.index,
                     !.fx.tick.elapsed = speakingData.elapsed]
      ELSE LET w1 == updateAudioSmoothing(w, speakingData.data)
               audioInfluences == calculateAudioInfluences(w1)
               w2 == updateHaloProperties(w1, audioInfluences)
               w3 == calculateDisplacement(w2, audioInfluences)
           IN  [w3 EXCEPT !.fx.tick.path = "speaking",
                          !.fx.tick.index = speakingData.index,
                          !.fx.tick.elapsed = speakingData.elapsed,
                          !.fx.tick.data = speakingData.data]

updateIdleAnimation(w) ==
  [w EXCEPT
     !.engine.smoothedHaloScale =
        dynamicSmooth(@, Decimal(1, 0), Decimal(0, 80)),
     !.engine.smoothedHaloBrightness =
        dynamicSmooth(@, Decimal(6, 0), Decimal(0, 80)),
     !.engine.smoothedHaloBlur =
        dynamicSmooth(@, Decimal(15, 0), Decimal(0, 80)),
     !.engine.speakingSmoothVolume =
        dynamicSmooth(@, Decimal(0, 0), Decimal(0, 80)),
     !.engine.speakingSmoothBass =
        dynamicSmooth(@, Decimal(0, 0), Decimal(0, 80)),
     !.engine.speakingSmoothMid =
        dynamicSmooth(@, Decimal(0, 0), Decimal(0, 80)),
     !.engine.smoothedDisplacement =
        dynamicSmooth(@, Decimal(0, 0), Decimal(0, 80)),
     !.fx.tick.path = "idle"]

updateAnimationState(w, m) ==
  IF m = "speaking" /\ w.engine.audioAnalysisData.isArray
  THEN updateSpeakingAnimation(w)
  ELSE updateIdleAnimation(w)

\* getCurrentMode(): the callback set by initialize() returns the mode
getCurrentMode(w) == w.mode

\* updateCSSProperties(): the two custom properties of the root element
\* and the deviation of the blur filter are written
updateCSSProperties(w) ==
  [w EXCEPT !.fx.tick.wrote =
              @ \cup {"--halo-scale", "--halo-brightness", "stdDeviation"}]

\* updateHaloShape(additionalDisplacement): the path of the halo is written
updateHaloShape(w) == [w EXCEPT !.fx.tick.wrote = @ \cup {"d"}]

\* requestAnimationFrame(() => this.animate()), kept in animationId: the
\* request gets an identifier no request had that the engine still knows
requestAnimationFrame(w) ==
  LET id == Least(FrameIds \ (w.display.frames \cup {w.engine.animationId}))
  IN  [w EXCEPT !.display.frames = @ \cup {id},
                !.engine.animationId = id,
                !.fx.tick.requested = @ + 1]

\* mutant: an exception of the tick leaves animate()
animateTry_NoCatch(w) ==
  LET w1 == [w EXCEPT !.fx.tick.readMode = TRUE]
      w2 == updateAnimationState(w1, getCurrentMode(w1))
  IN  IF w2.fx.tick.path = "error" THEN [w2 EXCEPT !.fx.threw = TRUE]
      ELSE updateHaloShape(updateCSSProperties(w2))

\* the try block of animate() and its catch, which logs the error
animateTry(w) ==
  LET w1 == [w EXCEPT !.fx.tick.readMode = TRUE]
      w2 == updateAnimationState(w1, getCurrentMode(w1))
  IN  IF w2.fx.tick.path = "error" THEN w2
      ELSE updateHaloShape(updateCSSProperties(w2))

\* mutant: the next frame is requested before the document is looked at
animate_RequestFirst(w) ==
  IF w.display.hidden
  THEN [requestAnimationFrame(w) EXCEPT !.fx.tick.path = "hidden"]
  ELSE animateTry(requestAnimationFrame(w))

\* animate(): nothing while the document is hidden; otherwise the next
\* frame is requested and the tick runs inside try/catch
animate(w) ==
  IF w.display.hidden THEN [w EXCEPT !.fx.tick.path = "hidden"]
  ELSE animateTry(requestAnimationFrame(w))

\* mutant: start() does not look at animationId
start_Unguarded(w) == animate(w)

\* start()
start(w) == IF w.engine.animationId = NoFrame THEN animate(w) ELSE w

\* stop(): cancelAnimationFrame(animationId), which does nothing if the
\* callback of that request has run
stop(w) ==
  IF w.engine.animationId # NoFrame
  THEN [w EXCEPT !.display.frames = @ \ {w.engine.animationId},
                 !.engine.animationId = NoFrame]
  ELSE w

----------------------------------------------------------------------------
(* AudioManager: the stream and the recorder *)

\* startRecording() once getUserMedia has resolved: the stream is kept in
\* the field; a stream the field held before stays live
getUserMediaResolved(w) ==
  [w EXCEPT !.audio.orphaned = @ \/ w.audio.stream = "live",
            !.audio.stream = "live"]

\* setupAudioAnalysis(), setupMediaRecorder() and mediaRecorder.start():
\* the field holds a new recorder, which records
audioManagerStartRecording(w) ==
  [getUserMediaResolved(w) EXCEPT !.audio.mediaRecorder = "recording"]

\* stopRecording() up to the stop event: the promise is rejected unless the
\* recorder is recording; otherwise onstop is set and the recorder stopped
audioManagerStopRecording(w) ==
  IF w.audio.mediaRecorder = "recording"
  THEN [w EXCEPT !.audio.mediaRecorder = "inactive",
                 !.audio.stopEvents = @ + 1]
  ELSE w

\* cleanup(): a recording recorder is stopped, the tracks of the stream
\* are stopped and the field is reset
audioManagerCleanup(w) ==
  [w EXCEPT !.audio.mediaRecorder = IF @ = "recording" THEN "inactive" ELSE @,
            !.audio.stream = "null"]

\* the onstop handler set by stopRecording()
onstop(w) == audioManagerCleanup([w EXCEPT !.audio.stopEvents = @ - 1])

----------------------------------------------------------------------------
(* VoiceAssistantApp: the mode machine *)

\* startRecording() up to its await: the microphone is being acquired
startRecording(w) ==
  IF w.mode # "idle" THEN w
  ELSE [w EXCEPT !.pending.mic = @ + 1]

\* startRecording() after its await: audioManager.startRecording() has
\* resolved (acquired) or has thrown 'Failed to access microphone'
startRecordingResumed(w, acquired) ==
  LET w1 == [w EXCEPT !.pending.mic = @ - 1]
  IN  IF acquired
      THEN setMode(audioManagerStartRecording(w1), "recording")
      ELSE setMode(showStatus(w1, "Failed to access microphone"), "idle")

\* processRecording() up to its first await: the recorder is being stopped
processRecording(w) ==
  [audioManagerStopRecording(w) EXCEPT !.pending.stop = @ + 1]

\* mutant: every failure is reported as 'Processing failed'
processRecordingCatch_Generic(w, error) ==
  setMode(showStatus(w, "Processing failed"), "idle")

\* the catch block of processRecording()
processRecordingCatch(w, error) ==
  setMode(showStatus(w, IF error = "No speech detected"
                        THEN "No speech detected"
                        ELSE "Processing failed"),
          "idle")

\* processRecording() after its first await: audioManager.stopRecording()
\* has resolved with the recording, which is uploaded for transcription, or
\* has rejected with 'No active recording'
processRecordingStopped(w, stopped) ==
  LET w1 == [w EXCEPT !.pending.stop = @ - 1]
  IN  IF stopped
      THEN [w1 EXCEPT !.pending.upload = @ + 1]
      ELSE processRecordingCatch(w1, "No active recording")

\* processRecording() after its second await: audioManager.processRecording
\* has resolved with a transcription or has thrown
processRecordingTranscribed(w, outcome) ==
  LET w1 == [w EXCEPT !.pending.upload = @ - 1]
  IN  IF outcome.ok
      THEN IF isConnected(w1)
           THEN send(w1, [type |-> "chat", text |-> outcome.transcription])
           ELSE w1
      ELSE processRecordingCatch(w1, outcome.error)

stopRecording(w) ==
  IF w.mode # "recording" THEN w
  ELSE processRecording(setMode(w, "processing"))

stopSpeaking(w) ==
  setMode(IF isConnected(w) THEN send(w, [type |-> "stop"]) ELSE w, "idle")

handleSpaceKey(w) ==
  CASE w.mode = "idle" -> startRecording(w)
    [] w.mode = "recording" -> stopRecording(w)
    [] w.mode = "speaking" -> stopSpeaking(w)
    [] OTHER -> w

\* mutant: no setMode('idle') after the recording and speaking branches
handleEscape_NoFallThrough(w) ==
  CASE w.mode = "recording" -> stopRecording(w)
    [] w.mode = "speaking" -> stopSpeaking(w)
    [] w.mode = "text" ->
         LET w1 == clearTextInput(setMode(w, "idle"))
         IN  IF isConnected(w1)
             THEN send(w1, [type |-> "mode_change", mode |-> "idle"])
             ELSE w1
    [] OTHER -> setMode(w, "idle")

handleEscape(w) ==
  CASE w.mode = "recording" -> setMode(stopRecording(w), "idle")
    [] w.mode = "speaking" -> setMode(stopSpeaking(w), "idle")
    [] w.mode = "text" ->
         LET w1 == clearTextInput(setMode(w, "idle"))
         IN  IF isConnected(w1)
             THEN send(w1, [type |-> "mode_change", mode |-> "idle"])
             ELSE w1
    [] OTHER -> setMode(w, "idle")

\* mutant: text mode is entered from any other mode
toggleTextMode_FromAnyMode(w) ==
  LET w1 == CASE w.mode = "text" -> clearTextInput(setMode(w, "idle"))
              [] OTHER -> setMode(w, "text")
  IN  IF isConnected(w1)
      THEN send(w1, [type |-> "mode_change", mode |-> w1.mode])
      ELSE w1

toggleTextMode(w) ==
  LET w1 == CASE w.mode = "text" -> clearTextInput(setMode(w, "idle"))
              [] w.mode = "idle" -> setMode(w, "text")
              [] OTHER -> w
  IN  IF isConnected(w1)
      THEN send(w1, [type |-> "mode_change", mode |-> w1.mode])
      ELSE w1

sendTextMessage(w) ==
  LET message == getTextInputValue(w)
  IN  IF message = "" THEN w
      ELSE LET w1 == clearTextInput(w)
           IN  IF isConnected(w1)
               THEN setMode(send(w1, [type |-> "chat", text |-> message]),
                            "processing")
               ELSE showStatus(w1, "Not connected")

\* mutant: the mode changes before the synthesis request is sent
handleChatResponse_ModeFirst(w, response) ==
  IF response = "" THEN w
  ELSE IF isConnected(w)
       THEN send(setMode(w, "speaking"), [type |-> "tts", text |-> response])
       ELSE w

handleChatResponse(w, response) ==
  IF response = "" THEN w
  ELSE IF isConnected(w)
       THEN setMode(send(w, [type |-> "tts", text |-> response]), "speaking")
       ELSE w

\* mutant: the payload is installed and the mode is left as it is
handleAudioAnalysis_KeepMode(w, analysis, duration, startTime) ==
  IF ~analysis.isArray THEN w
  ELSE setAudioAnalysisData(w, analysis, duration, startTime)

handleAudioAnalysis(w, analysis, duration, startTime) ==
  IF ~analysis.isArray THEN w
  ELSE LET w1 == setAudioAnalysisData(w, analysis, duration, startTime)
       IN  IF w1.mode = "speaking" THEN w1 ELSE setMode(w1, "speaking")

handleTTSComplete(w) == setMode(clearAudioAnalysisData(w), "idle")

handleStop(w) == clearAudioAnalysisData(setMode(w, "idle"))

\* mutant: the error is shown and the mode is kept
handleError_StatusOnly(w) == showStatus(w, "Error")

\* the handler registered for 'error'
handleError(w) == setMode(showStatus(w, "Error"), "idle")

\* the handlers setupModuleInteractions() registers, by message type
appHandler(w, data) ==
  CASE data.type = "chat_response" -> handleChatResponse(w, data.response)
    [] data.type = "audio_analysis" ->
         handleAudioAnalysis(w, data.analysis, data.duration, data.start_time)
    [] data.type = "tts_complete" -> handleTTSComplete(w)
    [] data.type = "stop" -> handleStop(w)
    [] data.type = "error" -> handleError(w)
    [] OTHER -> w

\* onmessage for a frame that parses to the object data: handleMessage
\* looks the handler up by data.type and calls it with data
onmessageData(w, data) ==
  LET w1 == handleMessage(w, data.type)
  IN  IF data.type \in w.messageHandlers
      THEN appHandler([w1 EXCEPT !.fx.data = data], data)
      ELSE w1

----------------------------------------------------------------------------
(* KeyboardHandler *)

\* mutant: only the tag name decides
isTypingContext_TagsOnly(target) ==
  target # NoTarget /\ target.tagName \in {"input", "textarea", "select"}

\* DOMUtils.isTypingContext(target)
isTypingContext(target) ==
  IF target = NoTarget THEN FALSE
  ELSE IF target.tagName \in {"input", "textarea"}
       THEN IF target.tagName = "input"
            THEN target.type \notin
                   {"checkbox", "radio", "submit", "button", "reset", "file",
                    "hidden", "image", "color", "range"}
            ELSE TRUE
  ELSE IF target.tagName = "select" THEN TRUE
  ELSE IF target.contentEditable THEN TRUE
  ELSE target.role \in {"textbox", "searchbox"}

callback(w, name) == [w EXCEPT !.fx.callbacks = Append(@, name)]

\* the state behind toggleResponseVisibility() is read by no handler of the
\* mode machine and is not modelled
toggleResponseVisibility(w) == w

\* mutant: Escape is looked at after the typing context and the modifiers
keyHandler_EscapeGated(w, e) ==
  IF isTypingContext(e.target) THEN w
  ELSE IF e.ctrlKey \/ e.altKey \/ e.metaKey THEN w
  ELSE CASE e.code = "Escape" -> handleEscape(callback(w, "onEscape"))
         [] e.code = "Space" /\ ~e.shiftKey ->
              handleSpaceKey(callback(w, "onSpace"))
         [] e.code = "KeyT" /\ ~e.shiftKey ->
              toggleTextMode(callback(w, "onTextMode"))
         [] e.code = "KeyR" /\ ~e.shiftKey /\ w.mode # "text" ->
              toggleResponseVisibility(callback(w, "onToggleResponse"))
         [] OTHER -> w

\* the keydown listener of the document
keyHandler(w, e) ==
  IF e.code = "Escape" THEN handleEscape(callback(w, "onEscape"))
  ELSE IF isTypingContext(e.target) THEN w
  ELSE IF e.ctrlKey \/ e.altKey \/ e.metaKey THEN w
  ELSE CASE e.code = "Space" /\ ~e.shiftKey ->
              handleSpaceKey(callback(w, "onSpace"))
         [] e.code = "KeyT" /\ ~e.shiftKey ->
              toggleTextMode(callback(w, "onTextMode"))
         [] e.code = "KeyR" /\ ~e.shiftKey /\ w.mode # "text" ->
              toggleResponseVisibility(callback(w, "onToggleResponse"))
         [] OTHER -> w

\* the keydown listener of the text field, for an event whose target is
\* the text field
textInputHandler(w, e) ==
  IF e.code = "Enter" /\ ~e.shiftKey /\ ~e.ctrlKey /\ ~e.altKey /\ ~e.metaKey
  THEN sendTextMessage(callback(w, "onTextSubmit"))
  ELSE w

----------------------------------------------------------------------------
(* Actions *)

\* the state after a handler that ended in world w0: the manager, the
\* transports, the timers, the mode machine, the engine and the display
CommitWorld(w0) ==
  \E w \in {Collect(w0)} :
    /\ sockets' = w.sockets
    /\ ws' = w.ws
    /\ timers' = w.timers
    /\ reconnectTimer' = w.reconnectTimer
    /\ reconnectAttempts' = w.reconnectAttempts
    /\ messageHandlers' = w.messageHandlers
    /\ connectionStateCallback' = w.connectionStateCallback
    /\ now' = w.now
    /\ mode' = w.mode
    /\ textValue' = w.textValue
    /\ pending' = w.pending
    /\ engine' = w.engine
    /\ display' = w.display
    /\ ev' = w.fx

\* No handler reads the elements of the page or the stream and the recorder
\* of the AudioManager: they are followed by PageSpec and CaptureSpec, whose
\* actions commit them, and left as they are by the other specifications.
Commit(w0) == CommitWorld(w0) /\ UNCHANGED <<page, audio, cancelled>>

\* the state after a handler, the page followed
CommitPage(w0) ==
  CommitWorld(w0) /\ page' = w0.page /\ UNCHANGED <<audio, cancelled>>

\* the state after a handler, the AudioManager followed
CommitCapture(w0) == CommitWorld(w0) /\ audio' = w0.audio /\ UNCHANGED page

\* room for the transport and the timer connect() may create
ConnectHasRoom(w) ==
  /\ FreeSockets(Collect(cleanup(w))) # {}
  /\ FreeTimers(clearReconnectTimer(w)) # {}
ScheduleHasRoom(w) == FreeTimers(clearReconnectTimer(w)) # {}

Init ==
  /\ sockets = [s \in SocketIds |-> "NONE"]
  /\ ws = NoSocket
  /\ timers = {}
  /\ reconnectTimer = NoTimer
  /\ reconnectAttempts = 0
  /\ messageHandlers = AppMessageTypes
  /\ connectionStateCallback = TRUE
  /\ timing \in TimingConfigs
  /\ started = FALSE
  /\ disconnected = FALSE
  /\ now = 0
  /\ mode = "idle"
  /\ textValue = ""
  /\ pending = NonePending
  /\ engine = NewEngine
  /\ display = NewDisplay
  /\ page = NewPage
  /\ audio = NewAudio
  /\ cancelled = FALSE
  /\ ev = NoEffects("new")

\* the application calls connect()
Connect ==
  /\ \E w \in {World("connect")}, constructs \in BOOLEAN :
       /\ ConnectHasRoom(w)
       /\ \E r \in {connect(w, constructs)} : Commit(r)
  /\ started' = TRUE
  /\ disconnected' = FALSE
  /\ UNCHANGED timing

\* the application calls disconnect()
Disconnect ==
  /\ \E w \in {World("disconnect")} : \E r \in {disconnect(w)} : Commit(r)
  /\ disconnected' = TRUE
  /\ UNCHANGED <<timing, started>>

\* the application calls send(message)
Send ==
  /\ \E w \in {World("send")}, message \in OutgoingMessages :
       \E r \in {send(w, message)} : Commit(r)
  /\ UNCHANGED <<timing, started, disconnected>>

\* the open event of a transport
SocketOpen ==
  /\ \E s \in SocketIds :
       /\ sockets[s] = "CONNECTING"
       /\ \E w \in {[World("open") EXCEPT !.sockets[s] = "OPEN",
                                          !.fx.sock = s]} :
            \E r \in {onopen(w)} : Commit(r)
  /\ UNCHANGED <<timing, started, disconnected>>

\* the peer starts the closing handshake: readyState becomes CLOSING, the
\* close event follows as an event of its own
SocketClosing ==
  /\ \E s \in SocketIds :
       /\ sockets[s] = "OPEN"
       /\ \E w \in {[World("closing") EXCEPT !.sockets[s] = "CLOSING",
                                             !.fx.sock = s]} :
            Commit(w)
  /\ UNCHANGED <<timing, started, disconnected>>

\* the close event of a transport: connection failed, lost or closed
SocketClose ==
  /\ \E s \in SocketIds :
       /\ sockets[s] \in {"CONNECTING", "OPEN", "CLOSING"}
       /\ \E w \in {[World("close") EXCEPT !.sockets[s] = "CLOSED",
                                           !.fx.sock = s]} :
            /\ ScheduleHasRoom(w)
            /\ \E r \in {onclose(w)} : Commit(r)
  /\ UNCHANGED <<timing, started, disconnected>>

\* the error event of a transport
SocketError ==
  /\ \E s \in SocketIds :
       /\ sockets[s] \in {"CONNECTING", "OPEN", "CLOSING"}
       /\ \E w \in {[World("error") EXCEPT !.fx.sock = s]} :
            \E r \in {onerror(w)} : Commit(r)
  /\ UNCHANGED <<timing, started, disconnected>>

\* a message event of a transport (delivered only while it is OPEN)
SocketMessage ==
  /\ \E s \in SocketIds, frame \in InboundFrames :
       /\ sockets[s] = "OPEN"
       /\ \E w \in {[World("message") EXCEPT !.fx.sock = s,
                                             !.fx.frame = frame]} :
            \E r \in {onmessage(w, frame)} : Commit(r)
  /\ UNCHANGED <<timing, started, disconnected>>

\* a reconnect timer expires: its callback calls connect()
TimerFires ==
  /\ \E p \in timers, constructs \in BOOLEAN :
       \E w \in {[World("timer") EXCEPT !.timers = @ \ {p}]} :
         /\ ConnectHasRoom(w)
         /\ \E r \in {connect(w, constructs)} : Commit(r)
  /\ UNCHANGED <<timing, started, disconnected>>

----------------------------------------------------------------------------
(* Actions of the application: keyboard, text field, awaits, server *)

PendingInBounds(w) ==
  /\ w.pending.mic <= MaxInflight
  /\ w.pending.stop <= MaxInflight
  /\ w.pending.upload <= MaxInflight

\* initialize(): the listeners are set up, the engine is started and
\* connect() is called
initialize(w, constructs) == connect(start(w), constructs)

Initialize ==
  /\ ~started
  /\ \E w \in {World("initialize")}, constructs \in BOOLEAN :
       /\ ConnectHasRoom(w)
       /\ \E r \in {initialize(w, constructs)} : Commit(r)
  /\ started' = TRUE
  /\ disconnected' = FALSE
  /\ UNCHANGED timing

\* a keydown event reaches the document listener
KeyDown ==
  /\ started
  /\ \E e \in KeyEvents :
       \E w \in {[World("keydown") EXCEPT !.fx.key = e]} :
         \E r \in {keyHandler(w, e)} : PendingInBounds(r) /\ Commit(r)
  /\ UNCHANGED <<timing, started, disconnected>>

\* a keydown of Enter in the text field, which is shown in text mode: the
\* document listener sees it first, in a typing context
TextKeyDown ==
  /\ started
  /\ mode = "text"
  /\ \E e \in {KeyEvent("Enter", TextField, m) : m \in KeyModifiers} :
       \E w \in {[World("textkeydown") EXCEPT !.fx.key = e]} :
         \E r \in {textInputHandler(keyHandler(w, e), e)} : Commit(r)
  /\ UNCHANGED <<timing, started, disconnected>>

\* the user edits the text field
TextInput ==
  /\ started
  /\ mode = "text"
  /\ \E v \in TextValues \ {textValue} :
       Commit([World("input") EXCEPT !.textValue = v])
  /\ UNCHANGED <<timing, started, disconnected>>

\* getUserMedia settles: startRecording() resumes
MicrophoneSettles ==
  /\ pending.mic > 0
  /\ \E acquired \in BOOLEAN :
       \E w \in {[World("microphone") EXCEPT
                    !.fx.result = IF acquired THEN "acquired" ELSE "denied"]} :
         \E r \in {startRecordingResumed(w, acquired)} : Commit(r)
  /\ UNCHANGED <<timing, started, disconnected>>

\* audioManager.stopRecording() settles: processRecording() resumes
RecorderSettles ==
  /\ pending.stop > 0
  /\ \E stopped \in BOOLEAN :
       \E w \in {[World("recorder") EXCEPT
                    !.fx.result = IF stopped THEN "stopped" ELSE "rejected"]} :
         \E r \in {processRecordingStopped(w, stopped)} :
           PendingInBounds(r) /\ Commit(r)
  /\ UNCHANGED <<timing, started, disconnected>>

\* the fetch of audioManager.processRecording() settles: it resolves or
\* throws, and processRecording() resumes
TranscriptionSettles ==
  /\ pending.upload > 0
  /\ \E response \in TranscriptionResponses :
       \E outcome \in {audioManagerProcessRecording(response)} :
         \E w \in {[World("transcription") EXCEPT
                      !.fx.response = response,
                      !.fx.result = IF outcome.ok THEN "transcribed"
                                    ELSE outcome.error]} :
           \E r \in {processRecordingTranscribed(w, outcome)} : Commit(r)
  /\ UNCHANGED <<timing, started, disconnected>>

\* a message event whose payload parses to a message of the server
ServerMessage ==
  /\ \E s \in SocketIds, data \in InboundMessages :
       /\ sockets[s] = "OPEN"
       /\ \E w \in {[World("message") EXCEPT !.fx.sock = s,
                                             !.fx.frame = data.type]} :
            \E r \in {onmessageData(w, data)} : Commit(r)
  /\ UNCHANGED <<timing, started, disconnected>>

AppInit == Init /\ timing = TIMING_CONFIG

\* The mode machine and the channel it talks through: the transport opens
\* and the peer closes it; the reconnect cycle that follows the close event
\* is the subject of Spec and LiveSpec.

AppNext ==
  \/ Initialize
  \/ KeyDown
  \/ TextKeyDown
  \/ TextInput
  \/ MicrophoneSettles
  \/ RecorderSettles
  \/ TranscriptionSettles
  \/ ServerMessage
  \/ SocketOpen
  \/ SocketClosing

AppSpec == AppInit /\ [][AppNext]_vars

----------------------------------------------------------------------------
(* Playback: render ticks after an audio_analysis payload was installed *)

\* the world in which a message of the open channel is handled at clock t,
\* the render loop having been started on a visible document
OpenedWorld(t, m) ==
  [ sockets |-> [s \in SocketIds |-> IF s = 1 THEN "OPEN" ELSE "NONE"],
    ws |-> 1, timers |-> {}, reconnectTimer |-> NoTimer,
    reconnectAttempts |-> 0, messageHandlers |-> AppMessageTypes,
    connectionStateCallback |-> TRUE,
    now |-> t, mode |-> m, textValue |-> "",
    pending |-> NonePending,
    engine |-> [NewEngine EXCEPT !.animationId = 1],
    display |-> [hidden |-> FALSE, frames |-> {1}],
    page |-> NewPage, audio |-> NewAudio,
    fx |-> [Effects("message", m) EXCEPT !.sock = 1,
                                         !.frame = "audio_analysis"] ]

\* the state after the handler of an audio_analysis message that arrived
\* in speaking mode
PlaybackInit ==
  \E samples \in SampleSequences, duration \in Durations,
     startTime \in StartTimes, t \in ReceiptTimes :
    \E r \in {onmessageData(OpenedWorld(t, "speaking"),
                            Message("audio_analysis", "", AnalysisOf(samples),
                                    duration, startTime))} :
      /\ sockets = r.sockets
      /\ ws = r.ws
      /\ timers = r.timers
      /\ reconnectTimer = r.reconnectTimer
      /\ reconnectAttempts = r.reconnectAttempts
      /\ messageHandlers = r.messageHandlers
      /\ connectionStateCallback = r.connectionStateCallback
      /\ timing = TIMING_CONFIG
      /\ started = TRUE
      /\ disconnected = FALSE
      /\ now = r.now
      /\ mode = r.mode
      /\ textValue = r.textValue
      /\ pending = r.pending
      /\ engine = r.engine
      /\ display = r.display
      /\ page = r.page
      /\ audio = r.audio
      /\ cancelled = FALSE
      /\ ev = r.fx

\* the client's clock advances
ClockAdvances ==
  /\ \E step \in ClockSteps :
       /\ now + step - engine.clientStartTime <= MaxElapsed
       /\ Commit([World("clock") EXCEPT !.now = now + step])
  /\ UNCHANGED <<timing, started, disconnected>>

\* room for the request a render tick makes
FrameHasRoom(w) ==
  FrameIds \ (w.display.frames \cup {w.engine.animationId}) # {}

\* the callback of a requested animation frame runs: animate()
AnimationFrame ==
  /\ \E f \in display.frames :
       \E w \in {[World("frame") EXCEPT !.display.frames = @ \ {f}]} :
         /\ FrameHasRoom(w)
         /\ \E r \in {animate(w)} : Commit(r)
  /\ UNCHANGED <<timing, started, disconnected>>

\* the document is hidden or shown
VisibilityChange ==
  /\ Commit([World("visibility") EXCEPT !.display.hidden = ~@])
  /\ UNCHANGED <<timing, started, disconnected>>

\* the sample lookup on a document that stays visible
PlaybackNext ==
  \/ ClockAdvances
  \/ AnimationFrame

PlaybackSpec == PlaybackInit /\ [][PlaybackNext]_vars

----------------------------------------------------------------------------
(* Render loop: the ticks of the engine from initialize() on *)

\* samples whose fields are out of range, negative, missing or infinite
\* (JSON.parse reads -1e999 as -Infinity)
LoudSample ==
  SampleOf(0, Decimal(5, 0), Decimal(5, 0), Decimal(5, 0), Decimal(5, 0))
NegativeSample ==
  SampleOf(0, Decimal(0, 500), Finite(-500), Undefined, Decimal(2, 0))
UnboundedSample == SampleOf(0, Undefined, Infinity(-1), Undefined, Undefined)
RenderSamples == {LoudSample, NegativeSample, UnboundedSample}

\* the messages that drive the engine: payloads of one such sample or of
\* none, lasting one second, and the end of the playback
RenderMessages ==
  {Message("audio_analysis", "", AnalysisOf(<<x>>), SecondsScale, 0) :
      x \in RenderSamples}
    \cup {Message("audio_analysis", "", AnalysisOf(<< >>), SecondsScale, 0),
          Message("tts_complete", "", NoAnalysis, 0, 0)}

\* time between two refreshes of the display, ms
RefreshInterval == 200

\* the state after the constructor of an application whose engine has
\* configuration c
RenderInit ==
  \E c \in AnimationConfigs :
    /\ sockets = [s \in SocketIds |-> "NONE"]
    /\ ws = NoSocket
    /\ timers = {}
    /\ reconnectTimer = NoTimer
    /\ reconnectAttempts = 0
    /\ messageHandlers = AppMessageTypes
    /\ connectionStateCallback = TRUE
    /\ timing = TIMING_CONFIG
    /\ started = FALSE
    /\ disconnected = FALSE
    /\ now = 0
    /\ mode = "idle"
    /\ textValue = ""
    /\ pending = NonePending
    /\ engine = AnimationEngine(c)
    /\ display = NewDisplay
    /\ page = NewPage
    /\ audio = NewAudio
    /\ cancelled = FALSE
    /\ ev = NoEffects("new")

\* a message event that carries a payload for the engine or ends it
RenderMessage ==
  /\ \E s \in SocketIds, data \in RenderMessages :
       /\ sockets[s] = "OPEN"
       /\ \E w \in {[World("message") EXCEPT !.fx.sock = s,
                                             !.fx.frame = data.type]} :
            \E r \in {onmessageData(w, data)} : Commit(r)
  /\ UNCHANGED <<timing, started, disconnected>>

\* the display refreshes: the clock has advanced by the refresh interval
\* and the callback of a requested animation frame runs
DisplayRefresh ==
  /\ now + RefreshInterval <= MaxElapsed
  /\ \E f \in display.frames :
       \E w \in {[World("frame") EXCEPT !.now = @ + RefreshInterval,
                                        !.display.frames = @ \ {f}]} :
         /\ FrameHasRoom(w)
         /\ \E r \in {animate(w)} : Commit(r)
  /\ UNCHANGED <<timing, started, disconnected>>

RenderNext ==
  \/ Initialize
  \/ SocketOpen
  \/ RenderMessage
  \/ DisplayRefresh
  \/ VisibilityChange

RenderSpec == RenderInit /\ [][RenderNext]_vars

----------------------------------------------------------------------------
(* The page: the text field, the status element and their timers *)

\* the keydown events followed here: Space, T and Escape, unmodified, on a
\* plain element
PlainKeys == {KeyEvent(c, Div, {}) : c \in {"Space", "KeyT", "Escape"}}

\* room for the timers a handler sets
PageHasRoom(w) ==
  /\ Len(w.page.deferred) <= MaxDeferred
  /\ w.page.statusTimers <= MaxStatusTimers

\* initialize(), the transport being constructed
PageInitialize ==
  /\ ~started
  /\ \E w \in {World("initialize")} :
       /\ ConnectHasRoom(w)
       /\ \E r \in {initialize(w, TRUE)} :
            PageHasRoom(r) /\ CommitPage(r)
  /\ started' = TRUE
  /\ disconnected' = FALSE
  /\ UNCHANGED timing

\* the open event of a transport
PageSocketOpen ==
  /\ \E s \in SocketIds :
       /\ sockets[s] = "CONNECTING"
       /\ \E w \in {[World("open") EXCEPT !.sockets[s] = "OPEN",
                                          !.fx.sock = s]} :
            \E r \in {onopen(w)} : PageHasRoom(r) /\ CommitPage(r)
  /\ UNCHANGED <<timing, started, disconnected>>

\* a keydown event reaches the document listener
PageKeyDown ==
  /\ started
  /\ \E e \in PlainKeys :
       \E w \in {[World("keydown") EXCEPT !.fx.key = e]} :
         \E r \in {keyHandler(w, e)} :
           PendingInBounds(r) /\ PageHasRoom(r) /\ CommitPage(r)
  /\ UNCHANGED <<timing, started, disconnected>>

\* getUserMedia rejects (the permission is denied): startRecording() resumes
\* in its catch block
MicrophoneRefused ==
  /\ pending.mic > 0
  /\ \E w \in {[World("microphone") EXCEPT !.fx.result = "denied"]} :
       \E r \in {startRecordingResumed(w, FALSE)} :
         PageHasRoom(r) /\ CommitPage(r)
  /\ UNCHANGED <<timing, started, disconnected>>

\* the health check finds the backend healthy: setBackendReady(true)
HealthCheckSettles ==
  /\ started
  /\ ~page.backendReady
  /\ \E w \in {World("health")} :
       \E r \in {setBackendReady(w, TRUE)} : PageHasRoom(r) /\ CommitPage(r)
  /\ UNCHANGED <<timing, started, disconnected>>

\* the oldest timer of delay 0 expires: its callback runs
DeferredTask ==
  /\ page.deferred # << >>
  /\ \E w \in {[World("deferred") EXCEPT !.page.deferred = Tail(@),
                                          !.fx.task = Head(page.deferred)]} :
       \E r \in {IF w.fx.task = "focus" THEN focusCallback(w)
                  ELSE blurCallback(w)} :
         CommitPage(r)
  /\ UNCHANGED <<timing, started, disconnected>>

\* a timer of showStatus expires: the status element is hidden
StatusTimer ==
  /\ page.statusTimers > 0
  /\ \E w \in {[World("status") EXCEPT !.page.statusTimers = @ - 1,
                                        !.fx.task = "hide"]} :
       \E r \in {statusCallback(w)} : CommitPage(r)
  /\ UNCHANGED <<timing, started, disconnected>>

PageInit == Init /\ timing = TIMING_CONFIG

\* the page under the keyboard, on a device that refuses the microphone
PageNext ==
  \/ PageInitialize
  \/ PageSocketOpen
  \/ PageKeyDown
  \/ MicrophoneRefused
  \/ HealthCheckSettles
  \/ DeferredTask
  \/ StatusTimer

PageSpec == PageInit /\ [][PageNext]_vars

----------------------------------------------------------------------------
(* Capture: the stream and the recorder under the keyboard and the server *)

\* the messages of the server followed here: one of each type, and payloads
\* that differ in samples, duration and start time
CaptureMessages ==
  { Message("chat_response", "hello", NoAnalysis, 0, 0),
    Message("audio_analysis", "", NoAnalysis, SecondsScale, 0),
    Message("audio_analysis", "", AnalysisOf(<<Sample(0)>>), SecondsScale, 0),
    Message("audio_analysis", "", AnalysisOf(<<Sample(0), Sample(100)>>),
            500, 2000),
    Message("tts_complete", "", NoAnalysis, 0, 0),
    Message("stop", "", NoAnalysis, 0, 0),
    Message("error", "", NoAnalysis, 0, 0) }

\* the time that passes before a message arrives, in ms
ArrivalDelays == {0, 500}

\* what getUserMedia and the set-up of the recorder settle with: the
\* recorder records, the permission is denied, or the stream is acquired
\* and the construction of the audio context or of the recorder throws
MicrophoneOutcomes == {"acquired", "denied", "unsupported"}

\* what the transcription endpoint answers
CaptureResponses ==
  {Response(TRUE, 200, "hello"), Response(FALSE, 500, NoTranscription)}

\* initialize(), the transport being constructed
CaptureInitialize ==
  /\ ~started
  /\ \E w \in {World("initialize")} :
       /\ ConnectHasRoom(w)
       /\ \E r \in {initialize(w, TRUE)} : CommitCapture(r)
  /\ started' = TRUE
  /\ disconnected' = FALSE
  /\ UNCHANGED <<timing, cancelled>>

\* the open event of a transport
CaptureSocketOpen ==
  /\ \E s \in SocketIds :
       /\ sockets[s] = "CONNECTING"
       /\ \E w \in {[World("open") EXCEPT !.sockets[s] = "OPEN",
                                          !.fx.sock = s]} :
            \E r \in {onopen(w)} : CommitCapture(r)
  /\ UNCHANGED <<timing, started, disconnected, cancelled>>

\* a keydown event reaches the document listener
CaptureKeyDown ==
  /\ started
  /\ \E e \in PlainKeys :
       /\ \E w \in {[World("keydown") EXCEPT !.fx.key = e]} :
            \E r \in {keyHandler(w, e)} :
              PendingInBounds(r) /\ CommitCapture(r)
       /\ cancelled' = (/\ e.code = "Escape"
                        /\ mode = "recording"
                        /\ pending.stop = 0
                        /\ pending.upload = 0)
  /\ UNCHANGED <<timing, started, disconnected>>

\* getUserMedia settles and startRecording() resumes
CaptureMicrophoneSettles ==
  /\ pending.mic > 0
  /\ \E outcome \in MicrophoneOutcomes :
       \E w0 \in {[World("microphone") EXCEPT !.fx.result = outcome]} :
         \E w \in {IF outcome = "unsupported" THEN getUserMediaResolved(w0)
                    ELSE w0} :
           \E r \in {startRecordingResumed(w, outcome = "acquired")} :
             CommitCapture(r)
  /\ UNCHANGED <<timing, started, disconnected, cancelled>>

\* an await of audioManager.stopRecording() settles: the stop event of a
\* recorder runs onstop, which resolves the promise, or the promise was
\* rejected because no recorder was recording; processRecording() resumes
CaptureRecorderSettles ==
  /\ pending.stop > 0
  /\ \E stopped \in BOOLEAN :
       /\ IF stopped THEN audio.stopEvents > 0
          ELSE pending.stop > audio.stopEvents
       /\ \E w0 \in {[World("recorder") EXCEPT
                         !.fx.result =
                            IF stopped THEN "stopped" ELSE "rejected"]} :
            \E w \in {IF stopped THEN onstop(w0) ELSE w0} :
              \E r \in {processRecordingStopped(w, stopped)} :
                PendingInBounds(r) /\ CommitCapture(r)
  /\ UNCHANGED <<timing, started, disconnected, cancelled>>

\* the fetch of audioManager.processRecording() settles
CaptureTranscriptionSettles ==
  /\ pending.upload > 0
  /\ \E response \in CaptureResponses :
       \E outcome \in {audioManagerProcessRecording(response)} :
         \E w \in {[World("transcription") EXCEPT
                      !.fx.response = response,
                      !.fx.result = IF outcome.ok THEN "transcribed"
                                    ELSE outcome.error]} :
           \E r \in {processRecordingTranscribed(w, outcome)} :
             CommitCapture(r)
  /\ UNCHANGED <<timing, started, disconnected, cancelled>>

\* a message of the server arrives, now or later
CaptureMessage ==
  /\ \E s \in SocketIds, data \in CaptureMessages, delay \in ArrivalDelays :
       /\ sockets[s] = "OPEN"
       /\ now + delay <= MaxElapsed
       /\ \E w \in {[World("message") EXCEPT !.now = @ + delay,
                                             !.fx.sock = s,
                                             !.fx.frame = data.type]} :
            \E r \in {onmessageData(w, data)} : CommitCapture(r)
  /\ UNCHANGED <<timing, started, disconnected, cancelled>>

CaptureInit == Init /\ timing = TIMING_CONFIG

CaptureNext ==
  \/ CaptureInitialize
  \/ CaptureSocketOpen
  \/ CaptureKeyDown
  \/ CaptureMicrophoneSettles
  \/ CaptureRecorderSettles
  \/ CaptureTranscriptionSettles
  \/ CaptureMessage

CaptureSpec == CaptureInit /\ [][CaptureNext]_vars

----------------------------------------------------------------------------
(* The engine: start() and stop() *)

\* the application calls start()
EngineStart ==
  /\ \E w \in {World("start")} :
       /\ FrameHasRoom(w)
       /\ \E r \in {start(w)} : Commit(r)
  /\ UNCHANGED <<timing, started, disconnected>>

\* the application calls stop()
EngineStop ==
  /\ \E w \in {World("stop")} : \E r \in {stop(w)} : Commit(r)
  /\ UNCHANGED <<timing, started, disconnected>>

EngineInit == Init /\ timing = TIMING_CONFIG

EngineNext ==
  \/ EngineStart
  \/ EngineStop
  \/ AnimationFrame
  \/ VisibilityChange
  \/ ClockAdvances

EngineSpec == EngineInit /\ [][EngineNext]_vars

----------------------------------------------------------------------------
(* WebSocketManager: the specifications of the manager *)

Next ==
  \/ Connect
  \/ Disconnect
  \/ Send
  \/ SocketOpen
  \/ SocketClosing
  \/ SocketClose
  \/ SocketError
  \/ SocketMessage
  \/ TimerFires

Spec == Init /\ [][Next]_vars

\* The reconnect cycle as long as the application does not call
\* disconnect(): connect() and the callbacks that change a transport, the
\* attempt counter or a timer.  A pending timer expires unless it is
\* cancelled, and a transport that is connecting or closing eventually
\* delivers its close event.
NextConnected ==
  \/ Connect
  \/ SocketOpen
  \/ SocketClosing
  \/ SocketClose
  \/ TimerFires

LiveSpec ==
  Init /\ [][NextConnected]_vars /\ SF_vars(TimerFires) /\ WF_vars(SocketClose)

TypeOK ==
  /\ sockets \in [SocketIds -> ReadyStates \cup {"NONE"}]
  /\ ws \in SocketIds \cup {NoSocket}
  /\ reconnectTimer \in TimerIds \cup {NoTimer}
  /\ reconnectAttempts \in Nat
  /\ messageHandlers \subseteq AppMessageTypes
  /\ connectionStateCallback \in BOOLEAN
  /\ timing \in TimingConfigs
  /\ started \in BOOLEAN
  /\ disconnected \in BOOLEAN
  /\ now \in Nat
  /\ mode \in AppModes
  /\ textValue \in TextValues
  /\ pending \in [mic : 0..MaxInflight, stop : 0..MaxInflight,
                   upload : 0..MaxInflight]
  /\ engine.audioAnalysisData.isArray \in BOOLEAN
  /\ Len(engine.audioAnalysisData.samples) <= MaxSamples
  /\ engine.clockOffset = engine.clientStartTime - engine.serverStartTime
  /\ engine.animationId \in FrameIds \cup {NoFrame}
  /\ engine.config \in AnimationConfigs
  /\ display.hidden \in BOOLEAN
  /\ display.frames \subseteq FrameIds
  /\ Len(page.deferred) <= MaxDeferred
  /\ page.statusTimers \in 0..MaxStatusTimers
  /\ audio.stream \in {"null", "live"}
  /\ audio.mediaRecorder \in {"null", "recording", "inactive"}
  /\ audio.stopEvents \in 0..MaxInflight
  /\ cancelled \in BOOLEAN

----------------------------------------------------------------------------
(* Properties *)

LiveSockets == {s \in SocketIds : sockets[s] \in {"CONNECTING", "OPEN"}}
CurrentState == IF ws = NoSocket THEN "NONE" ELSE sockets[ws]
MaxAttempts == timing.maxReconnectAttempts

\* d (in 1/DelayScale ms) is min(wsReconnectDelay * 1.5^(n-1), 10000 ms),
\* stated without division: 1.5^(n-1) = 3^(n-1) / 2^(n-1)
IsBackoffDelay(d, n) ==
  LET num == timing.wsReconnectDelay * Pow(3, n - 1)
      den == Pow(2, n - 1)
  IN  IF num <= ReconnectCap * den
      THEN d * den = num * DelayScale
      ELSE d = ReconnectCap * DelayScale

\* C1: after disconnect() and until connect() is called again, no reconnect
\* timer is pending, no handler schedules one and no handler constructs a
\* transport, whatever events are delivered.
C1_NoReconnectAfterDisconnect ==
  disconnected =>
    /\ timers = {}
    /\ ev.scheduled = << >>
    /\ ev.constructed = << >>

\* C2: whenever a handler schedules a reconnect, the delay of the timer is
\* min(wsReconnectDelay * 1.5^(n-1), 10000) for n = reconnectAttempts after
\* the increment, and no pending timer has a delay above the cap.
C2_BackoffDelay ==
  /\ \A i \in 1..Len(ev.scheduled) :
       IsBackoffDelay(ev.scheduled[i].delay, reconnectAttempts)
  /\ \A p \in timers : p.delay <= ReconnectCap * DelayScale

\* C2 witness: a reconnect was scheduled whose backoff is cut at the cap
C2_Witness ==
  /\ Len(ev.scheduled) = 1
  /\ ev.scheduled[1].delay = ReconnectCap * DelayScale
  /\ timing.wsReconnectDelay * Pow(3, reconnectAttempts - 1)
       > ReconnectCap * Pow(2, reconnectAttempts - 1)

\* C3: the attempt counter stays in 0..maxReconnectAttempts, every open
\* event resets it to 0, and a reconnect scheduled when the counter has
\* reached maxReconnectAttempts is attempt 1 again, with the base delay.
C3_AttemptCounter ==
  /\ [](reconnectAttempts \in 0..MaxAttempts)
  /\ [][ev'.op = "open" => reconnectAttempts' = 0]_vars
  /\ [][(ev'.scheduled # << >> /\ reconnectAttempts = MaxAttempts) =>
          /\ reconnectAttempts' = 1
          /\ ev'.scheduled[1].delay = timing.wsReconnectDelay * DelayScale]_vars

\* C3 witness: maxReconnectAttempts failures in a row were followed by a
\* reconnect scheduled as attempt 1
C3_Witness ==
  /\ Len(ev.scheduled) = 1
  /\ ev.scheduled[1].from = MaxAttempts
  /\ reconnectAttempts = 1
  /\ timers = {ev.scheduled[1]}

\* C4 as claimed: once connect() has been called and while disconnect() is
\* not called, every state has a CONNECTING or OPEN transport or a pending
\* reconnect timer, and a pending timer leads to its callback calling
\* connect().
C4_LiveOrTimerPending ==
  started => (LiveSockets # {} \/ timers # {})

\* C4 as amended: once connect() has been called and while disconnect() is
\* not called, every state has a pending reconnect timer or a current
\* transport whose close event is still to come (CONNECTING, OPEN or
\* CLOSING), and a pending timer always leads to its callback calling
\* connect(), for any number of failures in a row.
C4_ReconnectNeverHalts ==
  /\ [](started =>
          (timers # {} \/ CurrentState \in {"CONNECTING", "OPEN", "CLOSING"}))
  /\ ((timers # {}) ~> (ev.op = "timer"))

\* C4 witness: the reconnect timer of a wrapped attempt counter (more than
\* maxReconnectAttempts failures in a row) has expired and connect() ran
C4_Witness ==
  /\ ev.op = "timer"
  /\ ev.result = "failed"
  /\ Len(ev.scheduled) = 1
  /\ ev.scheduled[1].from = MaxAttempts

\* C5: send() returns true exactly when the current transport exists and is
\* OPEN, and then hands the message to that transport once; otherwise it
\* returns false and calls nothing on any transport; it never throws.
C5_SendOnlyWhenOpen ==
  [][ev'.op = "send" =>
       /\ ~ev'.threw
       /\ ev'.result = (IF CurrentState = "OPEN" THEN "true" ELSE "false")
       /\ IF CurrentState = "OPEN"
          THEN Len(ev'.sent) = 1 /\ ev'.sent[1].sock = ws
          ELSE ev'.sent = << >>
       /\ ev'.closeCalls = << >>
       /\ sockets' = sockets /\ ws' = ws]_vars

\* C5 witness: send() returned false on a transport that is closing
C5_Witness ==
  /\ ev.op = "send"
  /\ ev.result = "false"
  /\ CurrentState = "CLOSING"

\* C6: at most one reconnect timer is pending.
C6_AtMostOneTimer == Cardinality(timers) <= 1

\* C6 witness: a reconnect was scheduled while the timer of the previous
\* close or failure was still pending, and one timer is left
C6_Witness ==
  /\ ev.cancelled # << >>
  /\ ev.scheduled # << >>
  /\ Cardinality(timers) = 1

\* C7: at most one transport is CONNECTING or OPEN, and the handler that
\* constructed a transport left no other transport CONNECTING or OPEN.
C7_AtMostOneLiveTransport ==
  /\ Cardinality(LiveSockets) <= 1
  /\ ev.constructed # << >> => LiveSockets = {ws}

\* C7 witness: connect() replaced an open transport, which is still closing
C7_Witness ==
  /\ ev.constructed # << >>
  /\ ev.closeCalls # << >>
  /\ \E s \in SocketIds : s # ws /\ sockets[s] = "CLOSING"
  /\ CurrentState = "CONNECTING"

\* C8: connect(), called by the application or by the reconnect timer while
\* the current transport is CONNECTING, constructs and closes nothing and
\* leaves the transports, the attempt counter and the reconnect timer as
\* they were.
C8_ConnectWhileConnecting ==
  [][(ev'.op \in {"connect", "timer"} /\ CurrentState = "CONNECTING") =>
       /\ ev'.constructed = << >>
       /\ ev'.closeCalls = << >>
       /\ ev'.cancelled = << >>
       /\ ev'.scheduled = << >>
       /\ sockets' = sockets /\ ws' = ws
       /\ reconnectAttempts' = reconnectAttempts
       /\ reconnectTimer' = reconnectTimer
       /\ ev'.op = "connect" => timers' = timers]_vars

\* C8 witness: the reconnect timer called connect() during a connection
\* attempt
C8_Witness ==
  /\ ev.op = "timer"
  /\ ev.result = "noop"
  /\ CurrentState = "CONNECTING"

\* C9: a message event whose payload is not JSON invokes no handler, lets no
\* exception out of the callback and leaves the transports, the attempt
\* counter and the reconnect timer unchanged.
C9_MalformedFrameDropped ==
  [][(ev'.op = "message" /\ ev'.frame = "malformed") =>
       /\ ev'.handled = << >>
       /\ ~ev'.threw
       /\ ev'.sent = << >> /\ ev'.closeCalls = << >>
       /\ sockets' = sockets /\ ws' = ws
       /\ reconnectAttempts' = reconnectAttempts
       /\ reconnectTimer' = reconnectTimer /\ timers' = timers]_vars

\* C9 witness: a malformed frame was handled and the channel is still open
C9_Witness ==
  /\ ev.op = "message"
  /\ ev.frame = "malformed"
  /\ CurrentState = "OPEN"

\* what a close event does to the reconnect state: the counter is
\* incremented (from 0 when it had reached the maximum), the pending timer
\* is replaced by one timer with the backoff delay of the new attempt
ReconnectScheduledAsOnClose ==
  LET n == IF reconnectAttempts >= MaxAttempts THEN 1
           ELSE reconnectAttempts + 1
  IN  /\ reconnectAttempts' = n
      /\ Len(ev'.scheduled) = 1
      /\ IsBackoffDelay(ev'.scheduled[1].delay, n)
      /\ timers' = {ev'.scheduled[1]}
      /\ reconnectTimer' = ev'.scheduled[1].id

\* C10: a connect() whose transport construction throws does not throw, has
\* no transport, and schedules the reconnect exactly as a close event does.
C10_ConstructionFailureAsClose ==
  /\ [][ev'.result = "failed" =>
          /\ ~ev'.threw
          /\ ws' = NoSocket
          /\ ReconnectScheduledAsOnClose]_vars
  /\ [][ev'.op = "close" => ReconnectScheduledAsOnClose]_vars

\* C10 witness: connect() failed to construct a transport while an older
\* reconnect was counted, and a timer is pending
C10_Witness ==
  /\ ev.op = "connect"
  /\ ev.result = "failed"
  /\ reconnectAttempts = 2
  /\ timers # {}

\* C11: the open event of a transport resets the attempt counter to 0,
\* invokes the connection-state callback once, with true, and sends exactly
\* one ping, on the transport that opened, carrying the client's clock
\* reading; the close event of a transport invokes
\* the callback once, with false, and schedules one reconnect timer, which
\* is the pending one.
C11_OpenAndCloseHandling ==
  /\ ev.op = "open" =>
       /\ reconnectAttempts = 0
       /\ ev.notified = <<TRUE>>
       /\ ev.sent = <<[sock |-> ev.sock,
                       message |-> [type |-> "ping", timestamp |-> now]]>>
  /\ ev.op = "close" =>
       /\ ev.notified = <<FALSE>>
       /\ Len(ev.scheduled) = 1
       /\ ev.scheduled[1] \in timers
       /\ reconnectTimer = ev.scheduled[1].id

\* C11 witness: the current transport has opened, the callback was told so
\* and the ping went out on it
C11_Witness ==
  /\ ev.op = "open"
  /\ ev.sock = ws
  /\ Len(ev.sent) = 1
  /\ ev.sent[1].message.type = "ping"
  /\ ev.notified = <<TRUE>>
  /\ reconnectAttempts = 0

\* C12: the mode becomes recording only from idle, whatever the order of
\* key events, server messages and settled awaits; and a Space keydown in
\* processing mode changes neither the mode nor what is in flight, and
\* sends nothing.
C12_RecordingOnlyFromIdle ==
  /\ (mode = "recording" /\ ev.modeBefore # "recording") =>
        ev.modeBefore = "idle"
  /\ (ev.op = "keydown" /\ ev.key.code = "Space"
        /\ ev.modeBefore = "processing") =>
        /\ mode = "processing"
        /\ ev.modes = << >>
        /\ ev.sent = << >>

\* C13: a handled Escape keydown ends with mode idle, from every mode, in
\* and out of a typing context and with any modifier key held.
C13_EscapeEndsIdle ==
  (ev.op = "keydown" /\ ev.key.code = "Escape") =>
     /\ mode = "idle"
     /\ ev.callbacks = <<"onEscape">>

\* C13 witness: Escape with Ctrl held, in a typing context, in recording
\* mode: the recording is handed to processing and the mode ends idle
C13_Witness ==
  /\ ev.op = "keydown"
  /\ ev.key = KeyEvent("Escape", Textarea, {"ctrl"})
  /\ ev.modeBefore = "recording"
  /\ Len(ev.modes) = 2
  /\ mode = "idle"

\* C14: an await of the mode machine that settles when the mode is no
\* longer the one it was started in (idle for the microphone acquisition of
\* startRecording, processing for the recorder stop and the transcription
\* of processRecording) changes no mode and sends no message.
C14_StaleCompletionIsNoop ==
  ( \/ ev.op = "microphone" /\ ev.modeBefore # "idle"
    \/ ev.op \in {"recorder", "transcription"}
         /\ ev.modeBefore # "processing" ) =>
     /\ mode = ev.modeBefore
     /\ ev.modes = << >>
     /\ ev.sent = << >>

\* C15: a chat_response with a non-empty response sends exactly one tts
\* message carrying the response, on the channel the event came from, and
\* then sets the mode to speaking (the message is out when the mode is
\* set); a chat_response with an empty response sends nothing and sets no
\* mode.
C15_ChatResponseDispatch ==
  (ev.op = "message" /\ ev.data.type = "chat_response") =>
     IF ev.data.response # ""
     THEN /\ ev.sent = <<[sock |-> ev.sock,
                          message |-> [type |-> "tts",
                                       text |-> ev.data.response]]>>
          /\ ev.modes = <<[mode |-> "speaking", sent |-> 1]>>
          /\ mode = "speaking"
     ELSE /\ ev.sent = << >>
          /\ ev.modes = << >>
          /\ mode = ev.modeBefore

\* C15 witness: the response to a transcribed recording arrived in
\* processing mode and was sent on to synthesis
C15_Witness ==
  /\ ev.op = "message"
  /\ ev.data.type = "chat_response"
  /\ ev.data.response = "hello"
  /\ ev.modeBefore = "processing"
  /\ Len(ev.sent) = 1
  /\ mode = "speaking"

\* C16: after the handler of an inbound tts_complete, stop or error message
\* the mode is idle, whatever it was before.
C16_CompletionEndsIdle ==
  (ev.op = "message" /\ ev.data.type \in {"tts_complete", "stop", "error"})
     => mode = "idle"

\* C16 witness: an error message arrived in recording mode
C16_Witness ==
  /\ ev.op = "message"
  /\ ev.data.type = "error"
  /\ ev.modeBefore = "recording"
  /\ mode = "idle"

\* C17: after a handler that left speaking mode the engine holds no
\* analysis data.
C17_LeavingSpeakingClearsData ==
  (ev.modeBefore = "speaking" /\ mode # "speaking") =>
     ~engine.audioAnalysisData.isArray

\* C18 as claimed: text mode is entered only from idle and left only for
\* idle.
C18_TextBranchOfIdle ==
  /\ (mode = "text" /\ ev.modeBefore # "text") => ev.modeBefore = "idle"
  /\ (ev.modeBefore = "text" /\ mode # "text") => mode = "idle"

\* C18, amended: text mode is entered only from idle, by the T key; it is
\* left for idle by T, Escape, tts_complete, stop, error, a refused
\* microphone or a failed processing, for processing by a submitted
\* message, for speaking by chat_response or audio_analysis, and for
\* recording by a microphone acquisition that settles.
C18_TextEntryAndExits ==
  /\ (mode = "text" /\ ev.modeBefore # "text") =>
        /\ ev.modeBefore = "idle"
        /\ ev.op = "keydown" /\ ev.key.code = "KeyT"
  /\ (ev.modeBefore = "text" /\ mode # "text") =>
        CASE ev.op = "keydown" ->
               ev.key.code \in {"KeyT", "Escape"} /\ mode = "idle"
          [] ev.op = "textkeydown" ->
               /\ mode = "processing"
               /\ Len(ev.sent) = 1 /\ ev.sent[1].message.type = "chat"
          [] ev.op = "message" ->
               IF ev.data.type \in {"chat_response", "audio_analysis"}
               THEN mode = "speaking"
               ELSE mode = "idle"
          [] ev.op = "microphone" ->
               mode = IF ev.result = "acquired" THEN "recording" ELSE "idle"
          [] ev.op \in {"recorder", "transcription"} -> mode = "idle"
          [] OTHER -> FALSE

\* C18 witness: a message typed in text mode was submitted
C18_Witness ==
  /\ ev.op = "textkeydown"
  /\ ev.modeBefore = "text"
  /\ mode = "processing"
  /\ textValue = ""
  /\ Len(ev.sent) = 1

\* the samples the engine holds, and the playback time in ms a render tick
\* at the present clock looks up: max(0, now - receipt - buffering delay)
HeldSamples == engine.audioAnalysisData.samples
PlaybackElapsedMs ==
  Max(0, now - engine.clientStartTime - ANIMATION_BUFFERING_DELAY)
\* indices (1-based) of the samples whose time is at or before the playback
\* time: time (s) <= elapsed ms / 1000
AtOrBefore ==
  {i \in 1..Len(HeldSamples) :
     HeldSamples[i].time * 1000 <= PlaybackElapsedMs * SecondsScale}
TimeSorted ==
  /\ Len(HeldSamples) > 0
  /\ \A i \in 1..Len(HeldSamples) : HeldSamples[i].time # NoTime
  /\ \A i \in 1..(Len(HeldSamples) - 1) :
       HeldSamples[i].time <= HeldSamples[i + 1].time

\* C19: on a render tick in speaking mode over a non-empty sequence of
\* samples sorted ascending by time, the sample that drives the tick is the
\* one of greatest index among those whose time is at or before
\* max(0, (now - receipt time - buffering delay) / 1000) seconds, so that of
\* samples with equal times the last one is taken.
C19_GreatestSampleAtOrBefore ==
  (ev.op = "frame" /\ ev.tick.path # "hidden" /\ TimeSorted
     /\ AtOrBefore # {}) =>
     /\ ev.tick.path = "speaking"
     /\ ev.tick.index + 1 \in AtOrBefore
     /\ \A i \in AtOrBefore : i <= ev.tick.index + 1

\* C19 witness: two samples share the time the playback has reached, the
\* later one drives the tick
C19_Witness ==
  /\ ev.op = "frame"
  /\ HeldSamples = <<Sample(0), Sample(100), Sample(100)>>
  /\ PlaybackElapsedMs * SecondsScale = 100 * 1000
  /\ ev.tick.path = "speaking"
  /\ ev.tick.index = 2

\* C20: a render tick in speaking mode at which the playback time has
\* passed the duration of the payload is driven by no sample and takes the
\* idle update, which lets the visual quantities decay to rest.
C20_NoSamplePastDuration ==
  (ev.op = "frame" /\ ev.tick.path # "hidden" /\ mode = "speaking"
     /\ engine.audioAnalysisData.isArray
     /\ PlaybackElapsedMs > engine.speakingDuration) =>
     /\ ev.tick.index = -1
     /\ ev.tick.path = "idle"

\* C28: every Escape keydown of the document invokes the escape callback
\* exactly once, whatever its target and whatever modifier key is held.
C28_EscapeUnconditional ==
  (ev.op = "keydown" /\ ev.key.code = "Escape") =>
     ev.callbacks = <<"onEscape">>

\* C28 witness: Escape with Meta held, in a text area
C28_Witness ==
  /\ ev.op = "keydown"
  /\ ev.key = KeyEvent("Escape", Textarea, {"meta"})
  /\ ev.callbacks = <<"onEscape">>

\* C29: a Space, T or R keydown in an element that takes text (text input,
\* textarea, content-editable, role textbox or searchbox), or with Ctrl,
\* Alt, Meta or Shift held, invokes no callback and leaves the mode, the
\* awaits and the channel alone; an unmodified Space on a plain element
\* invokes the Space callback once, which starts acquiring the microphone
\* in idle mode and ends the recording in recording mode.
C29_ShortcutGating ==
  /\ (/\ ev.op = "keydown"
      /\ ev.key.code \in ShortcutCodes
      /\ \/ ev.key.target \in TypingTargets
         \/ ev.key.ctrlKey \/ ev.key.altKey \/ ev.key.metaKey
         \/ ev.key.shiftKey)
       => /\ ev.callbacks = << >>
          /\ mode = ev.modeBefore
          /\ ev.modes = << >>
          /\ ev.sent = << >>
  /\ (ev.op = "keydown" /\ ev.key = KeyEvent("Space", Div, {}))
       => /\ ev.callbacks = <<"onSpace">>
          /\ ev.modeBefore = "idle" => pending.mic > 0
          /\ ev.modeBefore = "recording" =>
               mode = "processing" /\ pending.stop > 0

\* C29 witness: Space in an element with role textbox, in recording mode
C29_Witness ==
  /\ ev.op = "keydown"
  /\ ev.key = KeyEvent("Space", Element("div", "", FALSE, "textbox"), {})
  /\ ev.modeBefore = "recording"
  /\ mode = "recording"
  /\ ev.callbacks = << >>

C23_NoPlaybackWithoutDuration ==
  (ev.op = "frame" /\ engine.audioAnalysisData.isArray
     /\ engine.speakingDuration <= 0) =>
     ev.tick.path # "speaking"

\* C24: a payload with an empty sample sequence counts as absent data: a
\* render tick in speaking mode decays towards the resting values and
\* raises no error.
C24_EmptySequenceIsAbsent ==
  (ev.op = "frame" /\ mode = "speaking" /\ ev.tick.path # "hidden"
     /\ engine.audioAnalysisData.isArray /\ HeldSamples = << >>) =>
     ev.tick.path = "idle"

\* C21: whatever the samples, the smoothed scale, brightness and blur stay
\* within the bounds of the configuration, provided its bounds contain the
\* resting values 1.0, 6 and 15.
C21_SmoothedWithinBounds ==
  /\ Within(engine.smoothedHaloScale,
            engine.config.minScale, engine.config.maxScale)
  /\ Within(engine.smoothedHaloBrightness,
            engine.config.minBrightness, engine.config.maxBrightness)
  /\ Within(engine.smoothedHaloBlur,
            engine.config.minBlur, engine.config.maxBlur)

\* a field of a sample brought into [0, 1]: 0 if it is absent or below 0,
\* 1 if it is above 1
ClampedToUnit(field) ==
  IF field.kind \in {"undefined", "NaN"} THEN Decimal(0, 0)
  ELSE IF LessEq(field, Decimal(0, 0)) THEN Decimal(0, 0)
  ELSE IF LessEq(Decimal(1, 0), field) THEN Decimal(1, 0)
  ELSE field

\* C22: the data a render tick is driven by are the fields of the selected
\* sample brought into [0, 1].
C22_SelectedFieldsClamped ==
  (ev.op = "frame" /\ ev.tick.path = "speaking") =>
     LET dataPoint == HeldSamples[ev.tick.index + 1]
     IN  /\ ev.tick.data.volume = ClampedToUnit(dataPoint.volume)
         /\ ev.tick.data.bass = ClampedToUnit(dataPoint.bass)
         /\ ev.tick.data.mid = ClampedToUnit(dataPoint.low_mid)
         /\ ev.tick.data.high = ClampedToUnit(dataPoint.high)

\* C25: after a tick that was skipped because the document was hidden the
\* loop is still armed, so that ticks go on once the document is shown.
C25_LoopSurvivesHidden ==
  (ev.op \in {"frame", "initialize"} /\ ev.tick.path = "hidden") =>
     display.frames # {}

\* C26: a render tick that finds the document hidden does not read the
\* mode, writes no property, requests no animation frame and leaves every
\* field of the engine as it was.
C26_HiddenTickDoesNothing ==
  [][(ev'.op \in {"frame", "initialize"} /\ ev'.tick.path = "hidden") =>
        /\ ~ev'.tick.readMode
        /\ ev'.tick.wrote = {}
        /\ ev'.tick.requested = 0
        /\ display'.frames \subseteq display.frames
        /\ engine' = engine
        /\ mode' = mode]_vars

\* C26 witness: a hidden tick during a playback that had moved the scale
C26_Witness ==
  /\ ev.op = "frame"
  /\ ev.tick.path = "hidden"
  /\ mode = "speaking"
  /\ engine.smoothedHaloScale # Decimal(1, 0)

\* C27: after a render tick on a visible document, whether it failed or
\* not, no exception has left the tick and exactly one animation frame is
\* requested, the one the engine holds the identifier of.
C27_TickRearmsAfterError ==
  (ev.op \in {"frame", "initialize"} /\ ev.tick.path \notin {"hidden", "none"})
     => /\ ~ev.threw
        /\ ev.tick.requested = 1
        /\ display.frames = {engine.animationId}

\* C27 witness: the lookup threw on an empty sample sequence
C27_Witness ==
  /\ ev.op = "frame"
  /\ ev.tick.path = "error"
  /\ HeldSamples = << >>
  /\ display.frames = {engine.animationId}

\* C31: once a recording request whose microphone access was denied has
\* been handled, the status element is visible with the text 'Failed to
\* access microphone' and the mode is idle.
C31_MicrophoneFaultShown ==
  (ev.op = "microphone" /\ ev.result = "denied") =>
     /\ page.status = [textContent |-> "Failed to access microphone",
                       visible |-> TRUE]
     /\ mode = "idle"

\* C32: the callback of a timer that blurs the text field (the one set when
\* the mode leaves text, the one set by every update outside text mode)
\* calls blur() if the mode is not text when it runs and calls nothing if
\* the mode is text again; the callback of the timer that focuses it calls
\* focus() if the mode is text and nothing otherwise; no callback changes
\* the mode.
C32_DeferredBlurChecksMode ==
  [][ev'.op = "deferred" =>
       /\ ev'.task \in {"exitBlur", "blur"} =>
            IF mode = "text"
            THEN ev'.dom = << >> /\ page'.textInput = page.textInput
            ELSE ev'.dom = <<"blur">> /\ ~page'.textInput.focused
       /\ ev'.task = "focus" =>
            IF mode = "text"
            THEN ev'.dom = <<"focus">> /\ page'.textInput.focused
            ELSE ev'.dom = << >> /\ page'.textInput = page.textInput
       /\ mode' = mode]_vars

\* C32 witness: text mode was left and entered again before the timer set
\* on leaving it expired: the focused text field keeps the focus
C32_Witness ==
  /\ ev.op = "deferred"
  /\ ev.task = "exitBlur"
  /\ mode = "text"
  /\ ev.dom = << >>
  /\ page.textInput.focused

\* C33: Escape pressed in recording mode leaves the mode idle, and the
\* recording cancelled this way is never sent as a chat message: no step of
\* its stop or of its transcription sends anything.
C33_EscapeCancelsRecording ==
  /\ (ev.op = "keydown" /\ ev.key.code = "Escape"
        /\ ev.modeBefore = "recording") => mode = "idle"
  /\ (cancelled /\ ev.op \in {"recorder", "transcription"}) =>
        ev.sent = << >>

\* C34: at most one animation-frame callback is pending at any time;
\* start() called while a frame is pending requests none and changes
\* nothing of the display; stop() leaves none pending, and none is pending
\* as long as the engine holds no frame identifier, that is until the next
\* start().
C34_SingleFrameLoop ==
  /\ [](Cardinality(display.frames) <= 1)
  /\ [][(ev'.op = "start" /\ display.frames # {}) =>
          (ev'.tick.requested = 0 /\ display' = display)]_vars
  /\ [][ev'.op = "stop" => display'.frames = {}]_vars
  /\ [](engine.animationId = NoFrame => display.frames = {})

\* C34 witness: start() was called while the loop was running
C34_Witness ==
  /\ ev.op = "start"
  /\ ev.tick.requested = 0
  /\ Cardinality(display.frames) = 1
  /\ engine.animationId \in display.frames

\* C35: the close event of a transport that is not the manager's current
\* one (it was replaced by connect() or closed by disconnect()) notifies
\* nothing and schedules no reconnect.
C35_DiscardedTransportIsInert ==
  (ev.op = "close" /\ ev.sock # ws) =>
     (ev.notified = << >> /\ ev.scheduled = << >>)

\* C36: once an audio_analysis message whose analysis is an array has been
\* handled, the mode is speaking and the engine holds the samples of the
\* message, its duration in milliseconds and the clock value of the receipt,
\* whatever the mode and the engine's data were before; an audio_analysis
\* message whose analysis is not an array changes neither the mode nor the
\* engine.
C36_AnalysisInstallsSpeaking ==
  /\ []((ev.op = "message" /\ ev.data.type = "audio_analysis"
           /\ ev.data.analysis.isArray) =>
          /\ mode = "speaking"
          /\ engine.audioAnalysisData = ev.data.analysis
          /\ engine.speakingDuration = SecondsTimesMultiplier(ev.data.duration)
          /\ engine.clientStartTime = now)
  /\ [][(ev'.op = "message" /\ ev'.data.type = "audio_analysis"
           /\ ~ev'.data.analysis.isArray) =>
          (mode' = mode /\ engine' = engine)]_vars

\* C36 witness: a second payload arrives later, in text mode
C36_Witness ==
  /\ ev.op = "message"
  /\ ev.data.type = "audio_analysis"
  /\ Len(ev.data.analysis.samples) = 2
  /\ ev.modeBefore = "text"
  /\ mode = "speaking"
  /\ engine.clientStartTime > 0

\* C37: when the transcription of a recording has succeeded and nothing was
\* sent to the server (the channel is not open), the mode is not left in
\* processing.
C37_ProcessingHasOutstandingWork ==
  (ev.op = "transcription" /\ ev.result = "transcribed"
     /\ ev.sent = << >>) => mode # "processing"

\* C38: whenever the mode is idle, text or speaking and neither a
\* microphone acquisition nor a stop or transcription of a recording is in
\* flight, no microphone stream is live and the recorder is not recording.
C38_NoCaptureOutsideRecording ==
  (mode \in {"idle", "text", "speaking"} /\ pending = NonePending) =>
     /\ audio.stream = "null"
     /\ ~audio.orphaned
     /\ audio.mediaRecorder # "recording"

\* C39: on every render tick that looks a sample up in a non-empty
\* sequence, the index the lookup computes is one of 0 .. length - 1.
C39_LookupIndexInRange ==
  (ev.op = "frame" /\ ev.tick.elapsed >= 0 /\ HeldSamples # << >>) =>
     ev.tick.index \in 0..(Len(HeldSamples) - 1)

\* C40: on every render tick that looks a sample up, the playback time it
\* uses is max(0, now - receipt time - buffering delay) milliseconds, in
\* seconds, whatever start_time the server sent; the clock offset is the
\* receipt time minus the server's start time, and a render tick changes
\* neither the offset nor the two times.
C40_ElapsedFromReceipt ==
  /\ []((ev.op = "frame" /\ ev.tick.elapsed >= 0) =>
          ev.tick.elapsed * TIME_CONVERSION_MULTIPLIER =
             PlaybackElapsedMs * SecondsScale)
  /\ [](engine.clockOffset =
           engine.clientStartTime - engine.serverStartTime)
  /\ [][ev'.op = "frame" =>
          /\ engine'.clockOffset = engine.clockOffset
          /\ engine'.clientStartTime = engine.clientStartTime
          /\ engine'.serverStartTime = engine.serverStartTime]_vars

\* C40 witness: the server's start time differs from the receipt time and
\* the buffering delay has passed
C40_Witness ==
  /\ ev.op = "frame"
  /\ engine.serverStartTime = 2000
  /\ engine.clientStartTime = 1000
  /\ ev.tick.elapsed > 0
  /\ ev.tick.path = "speaking"

====
